---- MODULE Spec2Model ----
(***************************************************************************)
(* Cloud Codex: session registry (SessionManager), approval broker         *)
(* (WebSocketGateway + ApprovalPolicyEngine + ApprovalAuditor) and the     *)
(* agent process they front.                                               *)
(*                                                                         *)
(* Strings that the code inspects character by character (command, cwd,    *)
(* auto-approve prefixes, path patterns) are sequences of one-character    *)
(* strings.  Time is counted in ticks of one idle timeout (30 min); the       *)
(* shorter deadlines (approval 5 min, request 60 s) end within one tick.    *)
(***************************************************************************)
EXTENDS Integers, Sequences, FiniteSets, TLC

VARIABLES
    now,               \* wall clock, in ticks
    sessions,          \* SessionManager.sessions: sessionId -> Session
    userSessions,      \* SessionManager.userSessions: userId -> sessionId (0 = absent)
    nextSessionId,     \* number of sessionIds drawn from nanoid() so far
    creating,          \* createSession calls awaiting start/initialize: sessionId -> caller connection
    spawned,           \* sessionIds whose CodexAppServer.start() spawned a subprocess
    connections,       \* WebSocketGateway.connections: connectionId -> ClientConnection
    userConnections,   \* WebSocketGateway.userConnections: userId -> connectionId (0 = absent)
    nextConnId,        \* number of connectionIds drawn so far
    pendingApprovals,  \* WebSocketGateway.pendingApprovals: approvalId -> PendingApproval
    timers,            \* armed setTimeout handles of the broker: approvalId -> deadline
    nextApprovalId,    \* number of approvalIds drawn so far
    requests,          \* approval requests the agents have sent, in arrival order
    agentIn,           \* JSON-RPC Responses written to agents' stdin, in order
    auditLogs,         \* ApprovalAuditor.logs
    clientFrames,      \* frames sent on open sockets, in order
    errorLog,          \* approvalIds reported by console.error as invalid responses
    polReq,            \* policy check: the request under evaluation
    polCfg,            \* policy check: the engine's configuration
    polResult,         \* policy check: evaluate's result ("none" before the call)
    detached,          \* Session objects removed from the sessions map: sessionId -> Session
    stdinLog,          \* user requests written to agents' stdin by the gateway, in order
    sessionErrors,     \* the 'session-error' events emitted on the SessionManager, in order
    messagesHandled,   \* number of client messages handleMessage has routed
    requestIdCounter,  \* CodexAppServer.requestId
    calls,             \* sendRequest calls of one CodexAppServer, in order: id and settlements
    pendingRequests,   \* CodexAppServer.pendingRequests: id -> call (index into calls)
    rpcTimers,         \* calls whose 60 s setTimeout has not fired yet
    supProc,           \* CodexAppServer.process: "none", "running", "exited", "stopped"
    supReader,         \* CodexAppServer.rl: "none", "open", "closed"
    supEvents,         \* events emitted by the CodexAppServer, in order
    supConsole,        \* console.error lines written by the CodexAppServer, in order
    linesRead,         \* number of stdout lines and stderr chunks received
    mapper,            \* an IrMapper instance: rawEvents, runs, steps
    snapshots,         \* the mapper's runs after each consumed event, in order
    replay,            \* the snapshots of a second, fresh IrMapper fed the same events
    errDetails,        \* classifier: the details text (characters)
    errSummary,        \* classifier: summarizeError's result ("none" before the call)
    eventsRead         \* Notifications read from each session's agent: sessionId -> count

sessVars == <<now, sessions, userSessions, nextSessionId, creating, spawned, detached>>
connVars == <<connections, userConnections, nextConnId>>
brokerVars == <<pendingApprovals, timers, nextApprovalId, requests, agentIn, auditLogs>>
polVars == <<polReq, polCfg, polResult>>
outVars == <<clientFrames, errorLog>>
trafficVars == <<stdinLog, sessionErrors, messagesHandled>>
irVars == <<mapper, snapshots, replay>>
clsVars == <<errDetails, errSummary>>
evVars == <<eventsRead>>
supVars == <<requestIdCounter, calls, pendingRequests, rpcTimers, supProc, supReader, supEvents,
             supConsole, linesRead>>
vars == <<sessVars, connVars, brokerVars, outVars, polVars, trafficVars, supVars,
         irVars, clsVars, evVars>>

-----------------------------------------------------------------------------
(* Bounds *)

MaxSessions == 3
MaxConns == 3
MaxRequests == 2
MaxTime == 2
MaxCmdLen == 4
MaxCwdLen == 3
MaxFrames == 3
BrokerSessions == 2
BrokerConns == 2
MaxCalls == 2
MaxLines == 3
MaxMessages == 1
MaxSessionErrors == 1
MaxTokens == 3
MaxEvents == 3
MaxLifecycleEvents == 5
MaxAgentEvents == 2

-----------------------------------------------------------------------------
(* Strings *)

CmdMethod == "item/commandExecution/requestApproval"
FileMethod == "item/fileChange/requestApproval"

\* String.prototype.includes for a single character
Includes(s, ch) == \E i \in 1..Len(s) : s[i] = ch

\* String.prototype.startsWith
StartsWith(s, p) == Len(p) <= Len(s) /\ SubSeq(s, 1, Len(p)) = p

IsSpace(ch) == ch = " "

RECURSIVE TrimStart(_)
TrimStart(s) == IF s # <<>> /\ IsSpace(Head(s)) THEN TrimStart(Tail(s)) ELSE s

RECURSIVE TrimEnd(_)
TrimEnd(s) ==
    IF s # <<>> /\ IsSpace(s[Len(s)]) THEN TrimEnd(SubSeq(s, 1, Len(s) - 1)) ELSE s

\* String.prototype.trim
Trim(s) == TrimEnd(TrimStart(s))

\* s.split(/\s+/)[0]: the characters before the first white space
RECURSIVE FirstField(_)
FirstField(s) ==
    IF s = <<>> \/ IsSpace(Head(s)) THEN <<>> ELSE <<Head(s)>> \o FirstField(Tail(s))

-----------------------------------------------------------------------------
(* ApprovalPolicyEngine *)

readOnlyCommands ==
    { <<"l","s">>, <<"c","a","t">>, <<"g","r","e","p">>, <<"f","i","n","d">>,
      <<"h","e","a","d">>, <<"t","a","i","l">>, <<"l","e","s","s">>,
      <<"m","o","r","e">>, <<"p","w","d">>, <<"e","c","h","o">>,
      <<"d","a","t","e">>, <<"w","h","o","a","m","i">>, <<"w","h","i","c","h">>,
      <<"g","i","t"," ","l","o","g">>, <<"g","i","t"," ","s","t","a","t","u","s">>,
      <<"g","i","t"," ","d","i","f","f">>, <<"g","i","t"," ","s","h","o","w">>,
      <<"n","p","m"," ","l","i","s","t">>, <<"y","a","r","n"," ","l","i","s","t">> }

isReadOnlyCommandNoRedirectCheck(command) ==
    FirstField(Trim(command)) \in readOnlyCommands

isReadOnlyCommand(command) ==
    IF Includes(command, ">")
    THEN FALSE
    ELSE FirstField(Trim(command)) \in readOnlyCommands

\* pattern.replace(/\*/g, '.*')
RECURSIVE RegexSource(_)
RegexSource(pattern) ==
    IF pattern = <<>> THEN <<>>
    ELSE (IF Head(pattern) = "*" THEN <<".", "*">> ELSE <<Head(pattern)>>)
         \o RegexSource(Tail(pattern))

\* new RegExp('^' + source + '$').test(path), for sources made of literal
\* characters, '.' and '.*' (every '*' of the source follows a '.')
RECURSIVE RegexTest(_, _)
RegexTest(source, path) ==
    IF source = <<>> THEN path = <<>>
    ELSE IF Head(source) = "." /\ Len(source) >= 2 /\ source[2] = "*"
         THEN \E k \in 0..Len(path) :
                 RegexTest(SubSeq(source, 3, Len(source)), SubSeq(path, k + 1, Len(path)))
         ELSE /\ path # <<>>
              /\ (Head(source) = "." \/ Head(source) = Head(path))
              /\ RegexTest(Tail(source), Tail(path))

matchPath(path, pattern) == RegexTest(RegexSource(pattern), path)

evaluate(request, config) ==
    IF request.method = CmdMethod
    THEN IF isReadOnlyCommand(request.command) THEN "accept"
         ELSE IF \E cmd \in config.commands : StartsWith(request.command, cmd) THEN "accept"
         ELSE IF \E pattern \in config.paths : matchPath(request.cwd, pattern) THEN "accept"
         ELSE "manual"
    ELSE "manual"

-----------------------------------------------------------------------------
(* Policy check: evaluate applied to every request and configuration of a  *)
(* bounded set                                                             *)

CmdAlphabet == {"l", "s", " ", ">"}
CwdAlphabet == {"/", "t"}

RECURSIVE StringsUpTo(_, _)
StringsUpTo(alphabet, n) ==
    IF n = 0 THEN {<<>>}
    ELSE LET shorter == StringsUpTo(alphabet, n - 1)
         IN  shorter \cup {<<ch>> \o s : ch \in alphabet, s \in shorter}

PolicyRequests ==
    {[method |-> CmdMethod, command |-> c, cwd |-> d] :
        c \in StringsUpTo(CmdAlphabet, MaxCmdLen), d \in StringsUpTo(CwdAlphabet, MaxCwdLen)}
    \cup {[method |-> FileMethod, command |-> <<>>, cwd |-> d] :
        d \in StringsUpTo(CwdAlphabet, 1)}
    \cup {[method |-> CmdMethod, command |-> c, cwd |-> <<"/">>] : c \in readOnlyCommands}

PolicyConfigs ==
    {[commands |-> cs, paths |-> ps] :
        cs \in {{}, {<<"s", " ">>}},
        ps \in {{}, {<<"/", "*">>}, {<<".", "t">>}}}

NoRequest == [method |-> "none", command |-> <<>>, cwd |-> <<>>]
NoConfig == [commands |-> {}, paths |-> {}]

-----------------------------------------------------------------------------
(* Maps *)

Put(m, k, v) == [x \in (DOMAIN m) \cup {k} |-> IF x = k THEN v ELSE m[x]]
Del(m, k) == [x \in (DOMAIN m) \ {k} |-> m[x]]
DelAll(m, ks) == [x \in (DOMAIN m) \ ks |-> m[x]]
EmptyMap == <<>>

-----------------------------------------------------------------------------
(* Program constants, in ticks of 30 minutes *)

Users == {"u1", "u2"}
\* the users of the runs that include the broker
BrokerUsers == {"u1"}

\* sessionIdleTimeout = 30 * 60 * 1000 ms
sessionIdleTimeout == 1
\* approvalConfig.timeoutMs = 5 * 60 * 1000 ms, which ends within one tick
timeoutMs == 1
defaultAction == "decline"

\* the gateway's default approvalConfig.autoApprove
approvalConfig ==
    [commands |-> { <<"l","s">>, <<"c","a","t">>, <<"g","r","e","p">>,
                    <<"g","i","t"," ","s","t","a","t","u","s">>,
                    <<"g","i","t"," ","l","o","g">> },
     paths |-> { <<"/","t","m","p","/","*">> }]

\* the approval requests an agent sends
AgentRequests ==
    { [method |-> CmdMethod, command |-> <<"l","s"," ","-","l","a">>, cwd |-> <<"/","h">>],
      [method |-> CmdMethod, command |-> <<"r","m"," ","-","r","f">>, cwd |-> <<"/","h">>],
      [method |-> FileMethod, command |-> <<>>, cwd |-> <<>>] }

\* the {decision, acceptSettings} payloads a client sends
ClientAnswers == {<<"accept", "forSession">>, <<"decline", "undefined">>}
ApprovalIds == 1..MaxRequests

-----------------------------------------------------------------------------
(* SessionManager *)

\* getSession
getSessionMissing(sessionId) == 0

getSession(sessionId) ==
    IF sessionId \in DOMAIN sessions THEN sessionId ELSE 0

\* the branch of getOrCreateSession that returns the registered session
existingSession(userId) ==
    LET existingSessionId == userSessions[userId]
    IN  IF /\ existingSessionId # 0
           /\ existingSessionId \in DOMAIN sessions
           /\ sessions[existingSessionId].state # "closed"
        THEN existingSessionId
        ELSE 0

\* the sessions cleanupIdleSessions destroys
idleSessionsIgnoringActivity ==
    {sid \in DOMAIN sessions : sessions[sid].state # "busy"}

idleSessions ==
    {sid \in DOMAIN sessions :
        /\ now - sessions[sid].lastActiveAt > sessionIdleTimeout
        /\ sessions[sid].state # "busy"}

\* userSessions after destroySession of every session of sids
userSessionsAfterDestroy(sids) ==
    [u \in Users |-> IF \E sid \in sids : sessions[sid].userId = u
                     THEN 0 ELSE userSessions[u]]

\* the Session objects after destroySession of every session of sids:
\* appServer.stop() and state = 'closed'
detachedAfterDestroy(sids) ==
    [sid \in (DOMAIN detached) \cup sids |->
        IF sid \in sids
        THEN [sessions[sid] EXCEPT !.state = "closed", !.proc = "stopped"]
        ELSE detached[sid]]

-----------------------------------------------------------------------------
(* WebSocketGateway: outbound frames *)

\* sendToConnection, on the connection table conns
sendToConnectionPrepended(conns, frames, connectionId, type, payload) ==
    IF connectionId \in DOMAIN conns /\ conns[connectionId].open
    THEN <<[conn |-> connectionId, type |-> type, payload |-> payload]>> \o frames
    ELSE frames

sendToConnection(conns, frames, connectionId, type, payload) ==
    IF connectionId \in DOMAIN conns /\ conns[connectionId].open
    THEN Append(frames, [conn |-> connectionId, type |-> type, payload |-> payload])
    ELSE frames

\* sendToUser
sendToUser(conns, frames, userId, type, payload) ==
    LET connectionId == userConnections[userId]
    IN  IF connectionId # 0
        THEN sendToConnection(conns, frames, connectionId, type, payload)
        ELSE frames

-----------------------------------------------------------------------------
(* Connections and session creation *)

\* handleConnection up to the return of getOrCreateSession when a session
\* of the user is registered and not closed, and up to the first await of
\* createSession otherwise
Connect(userId) ==
    /\ nextConnId < MaxConns
    /\ LET connectionId == nextConnId + 1
           existing == existingSession(userId)
           sessionId == nextSessionId + 1
       IN  /\ nextConnId' = connectionId
           /\ userConnections' = [userConnections EXCEPT ![userId] = connectionId]
           /\ IF existing # 0
              THEN /\ sessions' = [sessions EXCEPT ![existing].lastActiveAt = now]
                   /\ connections' = Put(connections, connectionId,
                          [userId |-> userId, sessionId |-> existing, open |-> TRUE])
                   /\ clientFrames' = sendToConnection(connections', clientFrames,
                          connectionId, "response", existing)
                   /\ UNCHANGED <<userSessions, nextSessionId, creating, spawned>>
              ELSE /\ nextSessionId < MaxSessions
                   /\ nextSessionId' = sessionId
                   /\ sessions' = Put(sessions, sessionId,
                          [userId |-> userId, state |-> "initializing", lastActiveAt |-> now,
                           proc |-> "running"])
                   /\ userSessions' = [userSessions EXCEPT ![userId] = sessionId]
                   /\ spawned' = spawned \cup {sessionId}
                   /\ creating' = Put(creating, sessionId, connectionId)
                   /\ connections' = Put(connections, connectionId,
                          [userId |-> userId, sessionId |-> 0, open |-> TRUE])
                   /\ UNCHANGED clientFrames
    /\ UNCHANGED <<now, detached, brokerVars, errorLog, polVars, trafficVars, supVars,
                   irVars, clsVars, evVars>>

\* createSession after start and initialize succeeded, and the rest of the
\* caller's handleConnection
InitializeOk(sessionId) ==
    /\ sessionId \in DOMAIN creating
    /\ sessionId \in DOMAIN sessions
    /\ sessions[sessionId].proc = "running"
    /\ LET connectionId == creating[sessionId]
       IN  /\ sessions' = [sessions EXCEPT ![sessionId].state = "ready"]
           /\ creating' = Del(creating, sessionId)
           /\ connections' = [connections EXCEPT ![connectionId].sessionId = sessionId]
           /\ clientFrames' = sendToConnection(connections', clientFrames,
                  connectionId, "response", sessionId)
    /\ UNCHANGED <<now, userSessions, nextSessionId, spawned, detached, userConnections,
                   nextConnId, brokerVars, errorLog, polVars, trafficVars, supVars,
                   irVars, clsVars, evVars>>

\* the Session object createSession holds in its local variable, registered
\* or not
sessionObject(sessionId) ==
    IF sessionId \in DOMAIN sessions THEN sessions[sessionId] ELSE detached[sessionId]

\* userSessions after createSession's catch block
userSessionsAfterFailKept(userId) == userSessions

userSessionsAfterFail(userId) == [userSessions EXCEPT ![userId] = 0]

\* createSession's catch block (error Response or request timeout), and the
\* caller's catch block
InitializeFail(sessionId) ==
    /\ sessionId \in DOMAIN creating
    /\ LET connectionId == creating[sessionId]
           userId == connections[connectionId].userId
       IN  /\ sessions' = Del(sessions, sessionId)
           /\ detached' = Put(detached, sessionId,
                  [sessionObject(sessionId) EXCEPT !.state = "closed"])
           /\ userSessions' = userSessionsAfterFail(userId)
           /\ creating' = Del(creating, sessionId)
           /\ clientFrames' = sendToConnection(connections, clientFrames,
                  connectionId, "error", "Failed to create session")
           /\ connections' = [connections EXCEPT ![connectionId].open = FALSE]
    /\ UNCHANGED <<now, nextSessionId, spawned, userConnections, nextConnId,
                   brokerVars, errorLog, polVars, trafficVars, supVars,
                   irVars, clsVars, evVars>>

\* the subprocess exits; the 'exit' listener exists once setupEventListeners ran
AgentExit(sessionId) ==
    /\ sessionId \in DOMAIN sessions
    /\ sessions[sessionId].proc = "running"
    /\ sessions' = [sessions EXCEPT
           ![sessionId].proc = "exited",
           ![sessionId].state = IF sessionId \in DOMAIN creating THEN @ ELSE "closed"]
    /\ UNCHANGED <<now, userSessions, nextSessionId, creating, spawned, detached, connVars,
                   brokerVars, outVars, polVars, trafficVars, supVars,
                   irVars, clsVars, evVars>>

\* socket 'close': handleDisconnection (the listener is registered after
\* getOrCreateSession returned)
Disconnect(connectionId) ==
    /\ connectionId \in DOMAIN connections
    /\ connections[connectionId].open
    /\ connections[connectionId].sessionId # 0
    /\ connections' = Del(connections, connectionId)
    /\ userConnections' = [userConnections EXCEPT ![connections[connectionId].userId] = 0]
    /\ UNCHANGED <<sessVars, nextConnId, brokerVars, outVars, polVars, trafficVars, supVars,
                   irVars, clsVars, evVars>>

\* the request types handleMessage forwards to the agent
UserMethods == {"thread/start", "thread/resume", "turn/start", "turn/interrupt"}

\* socket 'message' (the listener is registered after getOrCreateSession
\* returned): handleMessage up to the await of the agent's Response;
\* sendRequest writes the request to the subprocess's stdin.  The frame
\* carries a requestId, here the number of the message
UserRequest(connectionId, method) ==
    /\ messagesHandled < MaxMessages
    /\ messagesHandled' = messagesHandled + 1
    /\ connectionId \in DOMAIN connections
    /\ connections[connectionId].open
    /\ connections[connectionId].sessionId # 0
    /\ LET sessionId == getSession(connections[connectionId].sessionId)
       IN  IF sessionId = 0
           THEN /\ clientFrames' = sendToConnection(connections, clientFrames,
                       connectionId, "error",
                       [message |-> "Session not found",
                        requestId |-> messagesHandled + 1])
                /\ UNCHANGED stdinLog
           ELSE /\ stdinLog' = Append(stdinLog,
                       [session |-> sessionId, conn |-> connectionId,
                        method |-> method, requestId |-> messagesHandled + 1,
                        settled |-> FALSE])
                /\ UNCHANGED clientFrames
    /\ UNCHANGED <<sessVars, connVars, brokerVars, errorLog, polVars, sessionErrors, supVars,
                   irVars, clsVars, evVars>>

\* handleMessage after the await: the agent's Response arrived ('response'
\* frame), or sendRequest rejected (catch block, 'error' frame).  The frame
\* of the catch block has no requestId field (0)
UserRequestSettled(i, type) ==
    /\ i \in 1..Len(stdinLog)
    /\ ~stdinLog[i].settled
    /\ stdinLog' = [stdinLog EXCEPT ![i].settled = TRUE]
    /\ clientFrames' = sendToConnection(connections, clientFrames, stdinLog[i].conn, type,
           IF type = "response"
           THEN [message |-> stdinLog[i].method, requestId |-> stdinLog[i].requestId]
           ELSE [message |-> "Failed to process message", requestId |-> 0])
    /\ UNCHANGED <<sessVars, connVars, brokerVars, errorLog, polVars, sessionErrors,
                   messagesHandled, supVars,
                   irVars, clsVars, evVars>>

\* the setInterval callback: cleanupIdleSessions and the destroySession of
\* every idle session
CleanupIdleSessions ==
    /\ idleSessions # {}
    /\ sessions' = DelAll(sessions, idleSessions)
    /\ detached' = detachedAfterDestroy(idleSessions)
    /\ userSessions' = userSessionsAfterDestroy(idleSessions)
    /\ UNCHANGED <<now, nextSessionId, creating, spawned, connVars, brokerVars,
                   outVars, polVars, trafficVars, supVars,
                   irVars, clsVars, evVars>>

\* time passes; a timer that is due runs before the clock moves on, and a
\* handshake (60 s request deadline) settles within the tick it began in
Tick ==
    /\ now < MaxTime
    /\ \A approvalId \in DOMAIN timers : now < timers[approvalId]
    /\ creating = EmptyMap
    /\ now' = now + 1
    /\ UNCHANGED <<sessions, userSessions, nextSessionId, creating, spawned, detached, connVars,
                   brokerVars, outVars, polVars, trafficVars, supVars,
                   irVars, clsVars, evVars>>

-----------------------------------------------------------------------------
(* Approval broker *)

\* the id the agent gives its next request: unique within the session
nextRpcId(sessionId) ==
    1 + Cardinality({i \in 1..Len(requests) : requests[i].sessionId = sessionId})

\* CodexAppServer.respondToApproval: a Response line on the agent's stdin
respondToApprovalDropsSettings(sessionId, requestId, decision, acceptSettings) ==
    Append(agentIn, [sessionId |-> sessionId, id |-> requestId,
                     decision |-> decision, acceptSettings |-> "undefined"])

respondToApproval(sessionId, requestId, decision, acceptSettings) ==
    Append(agentIn, [sessionId |-> sessionId, id |-> requestId,
                     decision |-> decision, acceptSettings |-> acceptSettings])

\* the entry handed to ApprovalAuditor.log; req is the request whose
\* threadId, turnId, action, command and changes the entry copies
auditEntryNotAuto(userId, sessionId, req, decision, approver, autoApproved) ==
    [userId |-> userId, sessionId |-> sessionId, req |-> req, decision |-> decision,
     approver |-> approver, autoApproved |-> FALSE]

auditEntry(userId, sessionId, req, decision, approver, autoApproved) ==
    [userId |-> userId, sessionId |-> sessionId, req |-> req, decision |-> decision,
     approver |-> approver, autoApproved |-> autoApproved]

\* pendingApprovals.delete(approvalId)
pendingAfterKeep(approvalId) == pendingApprovals

pendingAfterDelete(approvalId) == Del(pendingApprovals, approvalId)

\* the agent sends an approval request: CodexAppServer.handleMessage emits
\* 'approval-request', SessionManager refreshes lastActiveAt and re-emits,
\* WebSocketGateway.handleApprovalRequest decides
AgentRequestApproval(sessionId, request) ==
    /\ Len(requests) < MaxRequests
    /\ now + timeoutMs <= MaxTime
    /\ sessionId \in DOMAIN sessions
    /\ sessionId \notin DOMAIN creating
    /\ sessions[sessionId].proc = "running"
    /\ LET rpcId == nextRpcId(sessionId)
           userId == sessions[sessionId].userId
           approvalId == nextApprovalId + 1
           req == Len(requests) + 1
           decision == evaluate(request, approvalConfig)
       IN  /\ requests' = Append(requests,
                  [sessionId |-> sessionId, rpcId |-> rpcId, request |-> request])
           /\ sessions' = [sessions EXCEPT ![sessionId].lastActiveAt = now]
           /\ nextApprovalId' = approvalId
           /\ IF decision \in {"accept", "decline"}
              THEN /\ IF getSession(sessionId) # 0
                      THEN /\ agentIn' = respondToApproval(sessionId, rpcId, decision,
                                  "undefined")
                           /\ auditLogs' = Append(auditLogs,
                                  auditEntry(userId, sessionId, req, decision,
                                             "policy_engine", TRUE))
                      ELSE UNCHANGED <<agentIn, auditLogs>>
                   /\ UNCHANGED <<pendingApprovals, timers, clientFrames>>
              ELSE /\ timers' = Put(timers, approvalId, now + timeoutMs)
                   /\ pendingApprovals' = Put(pendingApprovals, approvalId,
                          [requestId |-> rpcId, sessionId |-> sessionId, userId |-> userId,
                           req |-> req, createdAt |-> now])
                   /\ clientFrames' = sendToUser(connections, clientFrames, userId,
                          "approval/request", approvalId)
                   /\ UNCHANGED <<agentIn, auditLogs>>
    /\ UNCHANGED <<now, userSessions, nextSessionId, creating, spawned, detached, connVars,
                   errorLog, polVars, trafficVars, supVars,
                   irVars, clsVars, evVars>>

\* the deadline timer fires: handleApprovalTimeout
ApprovalTimeout(approvalId) ==
    /\ approvalId \in DOMAIN timers
    /\ now >= timers[approvalId]
    /\ timers' = Del(timers, approvalId)
    /\ IF approvalId \notin DOMAIN pendingApprovals
       THEN UNCHANGED <<pendingApprovals, agentIn, auditLogs>>
       ELSE LET pending == pendingApprovals[approvalId]
            IN  /\ IF getSession(pending.sessionId) # 0
                   THEN /\ agentIn' = respondToApproval(pending.sessionId,
                               pending.requestId, defaultAction, "undefined")
                        /\ auditLogs' = Append(auditLogs,
                               auditEntry(pending.userId, pending.sessionId, pending.req,
                                          "timeout", "timeout", FALSE))
                   ELSE UNCHANGED <<agentIn, auditLogs>>
                /\ pendingApprovals' = pendingAfterDelete(approvalId)
    /\ UNCHANGED <<sessVars, connVars, nextApprovalId, requests, outVars, polVars, trafficVars, supVars,
                   irVars, clsVars, evVars>>

\* the guard of handleApprovalResponse
invalidResponseNoSessionCheck(sessionId, approvalId) ==
    approvalId \notin DOMAIN pendingApprovals

invalidResponse(sessionId, approvalId) ==
    \/ approvalId \notin DOMAIN pendingApprovals
    \/ pendingApprovals[approvalId].sessionId # sessionId

\* a client frame of type approval/respond: handleMessage and
\* handleApprovalResponse
ApprovalRespond(connectionId, approvalId, decision, acceptSettings) ==
    /\ connectionId \in DOMAIN connections
    /\ connections[connectionId].open
    /\ connections[connectionId].sessionId # 0
    /\ LET sessionId == connections[connectionId].sessionId
       IN  IF getSession(sessionId) = 0
           THEN /\ Len(clientFrames) < MaxFrames
                /\ clientFrames' = sendToConnection(connections, clientFrames,
                       connectionId, "error", "Session not found")
                /\ UNCHANGED <<pendingApprovals, timers, agentIn, auditLogs, errorLog>>
           ELSE IF invalidResponse(sessionId, approvalId)
           THEN /\ errorLog' = errorLog \cup {approvalId}
                /\ UNCHANGED <<pendingApprovals, timers, agentIn, auditLogs, clientFrames>>
           ELSE LET pending == pendingApprovals[approvalId]
                IN  /\ timers' = Del(timers, approvalId)
                    /\ agentIn' = respondToApproval(sessionId, pending.requestId,
                           decision, acceptSettings)
                    /\ auditLogs' = Append(auditLogs,
                           auditEntry(pending.userId, pending.sessionId, pending.req,
                                      decision, "user_" \o pending.userId, FALSE))
                    /\ pendingApprovals' = pendingAfterDelete(approvalId)
                    /\ UNCHANGED <<clientFrames, errorLog>>
    /\ UNCHANGED <<sessVars, connVars, nextApprovalId, requests, polVars, trafficVars, supVars,
                   irVars, clsVars, evVars>>

-----------------------------------------------------------------------------
(* CodexAppServer: one supervisor and its subprocess *)

\* the methods of the requests sendRequest is called with
SupMethods == {"initialize", "turn/start"}

\* what a stdout line parses to.  json: "invalid" (JSON.parse throws),
\* "primitive" (a value the `in` operator throws on) or "object"; id = 0,
\* method = "" and threadId = "" stand for an absent field
NoFields == [json |-> "object", id |-> 0, method |-> "", result |-> FALSE,
             error |-> FALSE, threadId |-> ""]

StdoutLines ==
    { [NoFields EXCEPT !.json = "invalid"],
      [NoFields EXCEPT !.json = "primitive"],
      NoFields }
    \cup { [NoFields EXCEPT !.id = id] : id \in 1..MaxCalls }
    \cup { [NoFields EXCEPT !.id = id, !.result = TRUE] : id \in 1..(MaxCalls + 1) }
    \cup { [NoFields EXCEPT !.id = id, !.error = TRUE] : id \in 1..MaxCalls }
    \cup { [NoFields EXCEPT !.id = 1, !.method = CmdMethod, !.threadId = "thr1"],
           [NoFields EXCEPT !.id = 1, !.method = "tool/call", !.threadId = "thr1"],
           [NoFields EXCEPT !.method = "item/started", !.threadId = "thr1"],
           [NoFields EXCEPT !.method = "account/updated"] }

\* the texts of stderr chunks
StderrChunks ==
    { <<"H","T","T","P"," ","4","0","1">>, <<"T","i","m","e","o","u","t">>,
      <<"b","o","o","m">> }

\* the Latin capital letters and their lower-case forms
UpperCase == <<"A","B","C","D","E","F","G","H","I","J","K","L","M","N","O","P","Q","R","S","T","U","V","W","X","Y","Z">>
LowerCase == <<"a","b","c","d","e","f","g","h","i","j","k","l","m","n","o","p","q","r","s","t","u","v","w","x","y","z">>

\* String.prototype.toLowerCase, character by character
toLowerCaseChar(ch) ==
    IF \E j \in 1..Len(UpperCase) : UpperCase[j] = ch
    THEN LowerCase[CHOOSE j \in 1..Len(UpperCase) : UpperCase[j] = ch]
    ELSE ch

toLowerCaseIdentity(s) == s

toLowerCase(s) == [i \in 1..Len(s) |-> toLowerCaseChar(s[i])]

\* String.prototype.includes for a substring
IncludesText(s, sub) ==
    \E i \in 1..(Len(s) - Len(sub) + 1) : SubSeq(s, i, i + Len(sub) - 1) = sub

\* error-utils: the summary of a process error (the three summaries are
\* Chinese texts in the source; they are named here by their meaning)
summarizeError(details) ==
    LET normalized == toLowerCase(details)
    IN  IF \/ IncludesText(normalized, <<"4","0","1">>)
           \/ IncludesText(normalized,
                  <<"i","n","v","a","l","i","d","_","a","p","i","_","k","e","y">>)
        THEN "auth failed: API Key invalid"
        ELSE IF IncludesText(normalized, <<"t","i","m","e","o","u","t">>)
        THEN "request timeout"
        ELSE "Codex process error"

\* pieces the details of process errors are put together from
DetailsTokens ==
    { <<"4","0","1">>,
      <<"4","0">>,
      <<"1">>,
      <<"i","n","v","a","l","i","d","_","a","p","i","_","k","e","y">>,
      <<"I","N","V","A","L","I","D","_","A","P","I","_","K","E","Y">>,
      <<"I","n","v","a","l","i","d","_","A","p","i">>,
      <<"_","k","e","y">>,
      <<"t","i","m","e","o","u","t">>,
      <<"T","I","M","E","O","U","T">>,
      <<"T","i","m","e">>,
      <<"o","u","t">>,
      <<" ">>,
      <<"x">> }

\* the texts of up to n tokens
RECURSIVE TextsUpTo(_)
TextsUpTo(n) ==
    IF n = 0 THEN {<<>>}
    ELSE LET shorter == TextsUpTo(n - 1)
         IN  shorter \cup {t \o token : t \in shorter, token \in DetailsTokens}

DetailsTexts == TextsUpTo(MaxTokens)

\* a caller computes the summary of a process error's details
Summarize ==
    /\ errSummary = "none"
    /\ errDetails \in DetailsTexts
    /\ errSummary' = summarizeError(errDetails)
    /\ UNCHANGED <<sessVars, connVars, brokerVars, outVars, polVars, trafficVars, supVars,
                   irVars, evVars, errDetails>>

\* the branches of handleMessage
isResponse(line) == line.id # 0 /\ (line.result \/ line.error)
isRequest(line) == ~isResponse(line) /\ line.id # 0 /\ line.method # ""
isNotification(line) == ~isResponse(line) /\ line.method # "" /\ line.id = 0

\* JSON.parse or handleMessage throws inside the line handler's try block
lineThrows(line) == line.json # "object"

\* const id = ++this.requestId
nextRequestIdNotIncremented == requestIdCounter

nextRequestId == requestIdCounter + 1

\* the process field is set and was not reset by stop()
processSet == supProc \in {"running", "exited"}

\* a settlement (resolve or reject) invoked on the waiter of call c
settle(c, how) == [calls EXCEPT ![c].settled = Append(@, how)]

\* start(): spawn and the readline interface
SupStart ==
    /\ supProc = "none"
    /\ supProc' = "running"
    /\ supReader' = "open"
    /\ UNCHANGED <<requestIdCounter, calls, pendingRequests, rpcTimers, supEvents,
                   supConsole, linesRead>>
    /\ UNCHANGED <<sessVars, connVars, brokerVars, outVars, polVars, trafficVars,
                   irVars, clsVars, evVars>>

\* sendRequest, called by initialize, startThread, resumeThread, startTurn
\* and interruptTurn on a started supervisor
SupCall(method) ==
    /\ processSet
    /\ Len(calls) < MaxCalls
    /\ LET id == nextRequestId
           c == Len(calls) + 1
       IN  /\ requestIdCounter' = id
           /\ calls' = Append(calls, [id |-> id, method |-> method, settled |-> <<>>])
           /\ pendingRequests' = Put(pendingRequests, id, c)
           /\ rpcTimers' = rpcTimers \cup {c}
    /\ UNCHANGED <<supProc, supReader, supEvents, supConsole, linesRead>>
    /\ UNCHANGED <<sessVars, connVars, brokerVars, outVars, polVars, trafficVars,
                   irVars, clsVars, evVars>>

\* the setTimeout callback of sendRequest for call c
SupTimeout(c) ==
    /\ c \in rpcTimers
    /\ rpcTimers' = rpcTimers \ {c}
    /\ IF calls[c].id \in DOMAIN pendingRequests
       THEN /\ pendingRequests' = Del(pendingRequests, calls[c].id)
            /\ calls' = settle(c, "rejected_timeout")
       ELSE UNCHANGED <<pendingRequests, calls>>
    /\ UNCHANGED <<requestIdCounter, supProc, supReader, supEvents, supConsole, linesRead>>
    /\ UNCHANGED <<sessVars, connVars, brokerVars, outVars, polVars, trafficVars,
                   irVars, clsVars, evVars>>

\* handleMessage, Response branch: the waiter registered under the id
matchedCall(line) ==
    IF isResponse(line) /\ line.id \in DOMAIN pendingRequests
    THEN pendingRequests[line.id]
    ELSE 0

\* handleMessage: pendingRequests after the line
pendingAfterLineKept(line) == pendingRequests

pendingAfterLine(line) ==
    IF ~lineThrows(line) /\ matchedCall(line) # 0
    THEN Del(pendingRequests, line.id)
    ELSE pendingRequests

\* handleMessage: the waiters after the line (reject when error is set,
\* resolve otherwise)
callsAfterLine(line) ==
    IF ~lineThrows(line) /\ matchedCall(line) # 0
    THEN settle(matchedCall(line), IF line.error THEN "rejected_error" ELSE "resolved")
    ELSE calls

\* handleMessage: the events emitted for the line
eventsAfterLine(line) ==
    IF lineThrows(line) THEN supEvents
    ELSE IF isRequest(line) /\ line.method \in {CmdMethod, FileMethod}
    THEN Append(supEvents, [name |-> "approval-request", id |-> line.id,
                            method |-> line.method, threadId |-> line.threadId])
    ELSE IF isNotification(line)
    THEN Append(supEvents, [name |-> "event", id |-> 0,
                            method |-> line.method, threadId |-> line.threadId])
    ELSE supEvents

\* the line handler's catch block: console.error('Failed to parse JSONL')
consoleAfterLine(line) ==
    IF lineThrows(line)
    THEN Append(supConsole, [kind |-> "Failed to parse JSONL", text |-> <<>>])
    ELSE supConsole

\* the readline interface after the line handler returned
readerAfterLineUncaught(line) == IF lineThrows(line) THEN "closed" ELSE supReader

readerAfterLine(line) == supReader

\* rl.on('line'): JSON.parse and handleMessage inside try/catch
SupLine(line) ==
    /\ supReader = "open"
    /\ linesRead < MaxLines
    /\ linesRead' = linesRead + 1
    /\ pendingRequests' = pendingAfterLine(line)
    /\ calls' = callsAfterLine(line)
    /\ supEvents' = eventsAfterLine(line)
    /\ supConsole' = consoleAfterLine(line)
    /\ supReader' = readerAfterLine(line)
    /\ UNCHANGED <<requestIdCounter, rpcTimers, supProc>>
    /\ UNCHANGED <<sessVars, connVars, brokerVars, outVars, polVars, trafficVars,
                   irVars, clsVars, evVars>>

\* process.stderr.on('data'): console.error('Codex stderr:', ...)
SupStderr(chunk) ==
    /\ supProc # "none"
    /\ linesRead < MaxLines
    /\ linesRead' = linesRead + 1
    /\ supConsole' = Append(supConsole, [kind |-> "Codex stderr", text |-> chunk])
    /\ UNCHANGED <<requestIdCounter, calls, pendingRequests, rpcTimers, supProc, supReader,
                   supEvents>>
    /\ UNCHANGED <<sessVars, connVars, brokerVars, outVars, polVars, trafficVars,
                   irVars, clsVars, evVars>>

\* process.on('exit'): emit('exit', code); "killed" is a process that
\* stop() killed and whose exit has not been observed yet
SupExit ==
    /\ supProc \in {"running", "killed"}
    /\ supProc' = IF supProc = "running" THEN "exited" ELSE "stopped"
    /\ supEvents' = Append(supEvents, [name |-> "exit", id |-> 0, method |-> "",
                                       threadId |-> ""])
    /\ UNCHANGED <<requestIdCounter, calls, pendingRequests, rpcTimers, supReader,
                   supConsole, linesRead>>
    /\ UNCHANGED <<sessVars, connVars, brokerVars, outVars, polVars, trafficVars,
                   irVars, clsVars, evVars>>

\* stop(): process.kill(), process = null, rl.close()
SupStop ==
    /\ processSet
    /\ supProc' = IF supProc = "running" THEN "killed" ELSE "stopped"
    /\ supReader' = "closed"
    /\ UNCHANGED <<requestIdCounter, calls, pendingRequests, rpcTimers, supEvents,
                   supConsole, linesRead>>
    /\ UNCHANGED <<sessVars, connVars, brokerVars, outVars, polVars, trafficVars,
                   irVars, clsVars, evVars>>

-----------------------------------------------------------------------------
(* Registry events forwarded by the gateway *)

\* the listeners the gateway registered for 'session-error' at the registry:
\* setupSessionListeners registers 'session-event' and 'approval-request' only
sessionErrorListeners == {}

\* SessionManager.emit('session-error', {userId, error}) for a session whose
\* listeners are set up: every registered listener runs in the same step
\* the number of Notifications read from the agents of the sessions 1..n
RECURSIVE EventsReadUpTo(_)
EventsReadUpTo(n) == IF n = 0 THEN 0 ELSE eventsRead[n] + EventsReadUpTo(n - 1)

\* The agent of a session writes a Notification line: the supervisor's line
\* handler parses it and emits 'event'; the registry's listener (registered
\* once the handshake is done) stamps the session and emits 'session-event';
\* the gateway's listener sends an 'event' frame to the user's connection.
\* The emits are synchronous calls. The payload names the session and the
\* position of the line on its stdout.
AgentEvent(sessionId) ==
    /\ EventsReadUpTo(MaxSessions) < MaxAgentEvents
    /\ sessionId \in DOMAIN sessions
    /\ sessionId \notin DOMAIN creating
    /\ sessions[sessionId].state = "ready"
    /\ sessions[sessionId].proc = "running"
    /\ LET userId == sessions[sessionId].userId
           event == [session |-> sessionId, user |-> userId,
                     seq |-> eventsRead[sessionId] + 1]
       IN  /\ eventsRead' = [eventsRead EXCEPT ![sessionId] = @ + 1]
           /\ sessions' = [sessions EXCEPT ![sessionId].lastActiveAt = now]
           /\ clientFrames' = sendToUser(connections, clientFrames, userId, "event", event)
    /\ UNCHANGED <<now, userSessions, nextSessionId, creating, spawned, detached, connVars,
                   brokerVars, errorLog, polVars, trafficVars, supVars, irVars, clsVars>>

SessionError(sessionId, chunk) ==
    /\ Len(sessionErrors) < MaxSessionErrors
    /\ sessionId \in DOMAIN sessions
    /\ sessions[sessionId].state = "ready"
    /\ LET userId == sessions[sessionId].userId
           error == [summary |-> summarizeError(chunk), details |-> chunk,
                     source |-> "stderr"]
       IN  /\ sessionErrors' = Append(sessionErrors, [userId |-> userId, error |-> error])
           /\ clientFrames' =
                  IF "sendToUser" \in sessionErrorListeners
                  THEN sendToUser(connections, clientFrames, userId, "error", error.summary)
                  ELSE clientFrames
    /\ UNCHANGED <<sessVars, connVars, brokerVars, errorLog, polVars, stdinLog,
                   messagesHandled, supVars,
                   irVars, clsVars, evVars>>

-----------------------------------------------------------------------------
(* IrMapper: RawEvents to RunViews *)

\* an optional value: undefined is the empty set, a value v is {v}
None == {}
Some(v) == {v}
The(opt) == CHOOSE v \in opt : TRUE

\* a ?? b
Coalesce(a, b) == IF a # None THEN a ELSE b

\* !x for an optional string
Falsy(opt) == opt = None \/ opt = Some("")

\* the fields consume reads of ItemPayload, of payload.turn and payload.thread
\* and of the payload
NoItem ==
    [id |-> None, type |-> "", status |-> None, command |-> None, cwd |-> None,
     aggregatedOutput |-> None, exitCode |-> None, durationMs |-> None,
     changes |-> None, server |-> None, tool |-> None, arguments |-> None,
     result |-> None, error |-> None, query |-> None, content |-> None]

NoTurn == [id |-> None, threadId |-> None, status |-> None]

NoPayload ==
    [threadId |-> None, turnId |-> None, turn |-> None, thread |-> None,
     item |-> None, itemId |-> None, delta |-> None, text |-> None,
     plan |-> None, explanation |-> None, diff |-> None, inputTokens |-> None,
     outputTokens |-> None, totalTokens |-> None, approvalId |-> None,
     reason |-> None, risk |-> None]

\* the fields of a new IrMapper
NewMapper == [rawEvents |-> <<>>, runs |-> EmptyMap, steps |-> EmptyMap]

\* types/ir: createEmptyRunView
createEmptyRunView(runId) ==
    [runId |-> runId, steps |-> <<>>, createdAt |-> None, status |-> None,
     plan |-> None, diff |-> None, tokenUsage |-> None, meta |-> None]

extractThreadId(payload) ==
    Coalesce(payload.threadId,
        Coalesce(IF payload.turn # None THEN The(payload.turn).threadId ELSE None,
                 IF payload.thread # None THEN The(payload.thread).id ELSE None))

extractTurnId(payload) ==
    Coalesce(payload.turnId,
             IF payload.turn # None THEN The(payload.turn).id ELSE None)

mapStatus(status) ==
    IF status \in {Some("completed"), Some("failed"), Some("declined")} THEN The(status)
    ELSE IF status = Some("inProgress") THEN "inProgress"
    ELSE "completed"

mapStepKind(itemType) ==
    CASE itemType = "userMessage" -> "userMessage"
      [] itemType = "agentMessage" -> "assistantMessage"
      [] itemType = "reasoning" -> "reasoning"
      [] itemType = "commandExecution" -> "commandExecution"
      [] itemType = "fileChange" -> "fileChange"
      [] itemType = "mcpToolCall" -> "mcpToolCall"
      [] itemType = "collabToolCall" -> "collabToolCall"
      [] itemType = "webSearch" -> "webSearch"
      [] itemType = "imageView" -> "imageView"
      [] itemType \in {"enteredReviewMode", "exitedReviewMode"} -> "reviewMode"
      [] itemType = "compacted" -> "compacted"
      [] OTHER -> "systemNote"

\* the method names consume dispatches on
DeltaTypes ==
    {"item/agentMessage/delta", "item/reasoning/summaryTextDelta",
     "item/reasoning/summaryPartAdded", "item/reasoning/textDelta",
     "item/commandExecution/outputDelta", "item/fileChange/outputDelta"}

ApprovalTypes == {CmdMethod, FileMethod}

mapApprovalKind(method) ==
    IF method = CmdMethod THEN "commandExecution"
    ELSE IF method = FileMethod THEN "fileChange"
    ELSE "systemNote"

inferKindFromDelta(method) ==
    CASE method = "item/agentMessage/delta" -> "assistantMessage"
      [] method \in {"item/reasoning/summaryTextDelta", "item/reasoning/summaryPartAdded",
                     "item/reasoning/textDelta"} -> "reasoning"
      [] method = "item/commandExecution/outputDelta" -> "commandExecution"
      [] method = "item/fileChange/outputDelta" -> "fileChange"
      [] OTHER -> "systemNote"

\* String(n) for a request id that is a number
numberToString(n) == <<"1", "2", "3">>[n]

\* payload?.approvalId ?? String(event.rpcId ?? event.id); event.id is a string
buildApproval(event, payload) ==
    [approvalId |-> Coalesce(payload.approvalId,
                             IF event.rpcId # None
                             THEN Some(numberToString(The(event.rpcId)))
                             ELSE Some(event.id)),
     status |-> "pending", reason |-> payload.reason, risk |-> payload.risk]

\* flattenUserContent: content is kept as the list of its text parts, which
\* the source joins with newlines
flattenUserContent(content) ==
    IF content = None \/ The(content) = <<>> THEN None ELSE content

\* the object extractItemMeta returns: key -> value
extractItemMeta(item) ==
    CASE item.type = "userMessage" ->
            Some([content |-> item.content, text |-> flattenUserContent(item.content)])
      [] item.type = "commandExecution" ->
            Some([command |-> item.command, cwd |-> item.cwd])
      [] item.type = "fileChange" -> Some([changes |-> item.changes])
      [] item.type \in {"mcpToolCall", "collabToolCall"} ->
            Some([server |-> item.server, tool |-> item.tool,
                  arguments |-> item.arguments])
      [] item.type = "webSearch" -> Some([query |-> item.query])
      [] item.type \in {"enteredReviewMode", "exitedReviewMode"} ->
            Some([action |-> Some(item.type)])
      [] OTHER -> None

extractItemResult(item) ==
    CASE item.type = "commandExecution" ->
            Some([output |-> item.aggregatedOutput, exitCode |-> item.exitCode,
                  durationMs |-> item.durationMs])
      [] item.type = "fileChange" -> Some([changes |-> item.changes])
      [] item.type \in {"mcpToolCall", "collabToolCall"} ->
            Some([result |-> item.result, error |-> item.error])
      [] OTHER -> None

\* { ...a, ...b } for two optional objects
Spread(a, b) ==
    LET first == IF a = None THEN EmptyMap ELSE The(a)
        second == IF b = None THEN EmptyMap ELSE The(b)
    IN  Some([key \in DOMAIN first \cup DOMAIN second |->
                 IF key \in DOMAIN second THEN second[key] ELSE first[key]])

\* getOrCreateRun: the mapper afterwards
getOrCreateRun(m, threadId) ==
    IF threadId \in DOMAIN m.runs THEN m
    ELSE [m EXCEPT !.runs = Put(@, threadId, createEmptyRunView(threadId))]

\* the key of the steps map
StepKeyItemOnly(threadId, itemId) == itemId

StepKey(threadId, itemId) == threadId \o ":" \o itemId

\* the StepView a key refers to: steps and run.steps hold the same object,
\* found here by its run and its position in run.steps
stepAt(m, key) == m.runs[m.steps[key].threadId].steps[m.steps[key].index]

setStep(m, key, step) ==
    [m EXCEPT !.runs[m.steps[key].threadId].steps[m.steps[key].index] = step]

\* getOrCreateStep: the mapper afterwards
getOrCreateStep(m, threadId, itemId, kind, turnId) ==
    LET key == StepKey(threadId, itemId)
    IN  IF key \in DOMAIN m.steps
        THEN IF Falsy(stepAt(m, key).turnId) /\ ~Falsy(turnId)
             THEN setStep(m, key, [stepAt(m, key) EXCEPT !.turnId = turnId])
             ELSE m
        ELSE LET step == [stepId |-> itemId, itemId |-> itemId, kind |-> kind,
                          status |-> "pending", threadId |-> threadId,
                          turnId |-> turnId, rawEventIds |-> <<>>,
                          tsStart |-> None, tsEnd |-> None, meta |-> None,
                          result |-> None, stream |-> None, approval |-> None]
                 withRun == getOrCreateRun(m, threadId)
             IN  [withRun EXCEPT
                     !.steps = Put(@, key,
                         [threadId |-> threadId,
                          index |-> Len(withRun.runs[threadId].steps) + 1]),
                     !.runs[threadId].steps = Append(@, step)]

appendRawEvent(step, eventId) == [step EXCEPT !.rawEventIds = Append(@, eventId)]

\* the loop of turn/completed and item/started over run.steps: reasoning
\* steps of the turn that are in progress are completed
closeReasoningNoEnd(m, threadId, turnId, ts) ==
    [m EXCEPT !.runs[threadId].steps =
        [i \in 1..Len(@) |->
            IF @[i].turnId = turnId /\ @[i].kind = "reasoning" /\ @[i].status = "inProgress"
            THEN [@[i] EXCEPT !.status = "completed"]
            ELSE @[i]]]

closeReasoning(m, threadId, turnId, ts) ==
    [m EXCEPT !.runs[threadId].steps =
        [i \in 1..Len(@) |->
            IF @[i].turnId = turnId /\ @[i].kind = "reasoning" /\ @[i].status = "inProgress"
            THEN [@[i] EXCEPT !.status = "completed", !.tsEnd = Some(ts)]
            ELSE @[i]]]

\* the cases of consume's switch: the mapper afterwards
onThreadStarted(m, event, threadId) ==
    LET startedThreadId ==
            The(Coalesce(IF event.payload.thread # None
                         THEN The(event.payload.thread).id ELSE None,
                         Some(threadId)))
        withRun == getOrCreateRun(m, startedThreadId)
    IN  [withRun EXCEPT !.runs[startedThreadId].createdAt = Some(event.ts)]

lastTurnId(payload, turnId) ==
    Coalesce(IF payload.turn # None THEN The(payload.turn).id ELSE None, turnId)

onTurnStarted(m, event, threadId, turnId) ==
    [m EXCEPT !.runs[threadId].status = Some("inProgress"),
              !.runs[threadId].meta =
                  Spread(@, Some([lastTurnId |-> lastTurnId(event.payload, turnId)]))]

onTurnCompleted(m, event, threadId, turnId) ==
    LET payload == event.payload
        run == m.runs[threadId]
        status == Coalesce(IF payload.turn # None THEN The(payload.turn).status ELSE None,
                           Coalesce(run.status, Some("completed")))
        updated == [m EXCEPT !.runs[threadId].status = status,
                             !.runs[threadId].meta =
                                 Spread(@, Some([lastTurnId |-> lastTurnId(payload, turnId)]))]
    IN  IF ~Falsy(turnId)
        THEN closeReasoning(updated, threadId, turnId, event.ts)
        ELSE updated

\* the history array after the push of turn/plan/updated
planHistoryDropped(run) == None

planHistory(run) ==
    IF run.plan = None THEN None
    ELSE Some(Append(IF The(run.plan).history = None THEN <<>>
                     ELSE The(The(run.plan).history),
                     [updatedAt |-> The(run.plan).updatedAt,
                      steps |-> The(run.plan).steps]))

onPlanUpdated(m, event, threadId, turnId) ==
    LET payload == event.payload
        plan == IF payload.plan # None THEN The(payload.plan) ELSE <<>>
    IN  [m EXCEPT !.runs[threadId].plan =
            Some([turnId |-> turnId, updatedAt |-> event.ts,
                  explanation |-> payload.explanation, steps |-> plan,
                  history |-> planHistory(m.runs[threadId])])]

onDiffUpdated(m, event, threadId, turnId) ==
    [m EXCEPT !.runs[threadId].diff =
        Some([turnId |-> turnId, updatedAt |-> event.ts,
              diff |-> The(Coalesce(event.payload.diff, Some("")))])]

onTokenUsageUpdated(m, event, threadId) ==
    [m EXCEPT !.runs[threadId].tokenUsage =
        Some([updatedAt |-> event.ts, inputTokens |-> event.payload.inputTokens,
              outputTokens |-> event.payload.outputTokens,
              totalTokens |-> event.payload.totalTokens])]

\* the timestamp item/started and item/completed store
tsOfWallClock(event) == now

tsOf(event) == event.ts

onItemStarted(m, event, threadId, turnId) ==
    IF event.payload.item = None \/ Falsy(The(event.payload.item).id) THEN m
    ELSE LET item == The(event.payload.item)
             key == StepKey(threadId, The(item.id))
             closed == IF item.type # "reasoning" /\ ~Falsy(turnId)
                       THEN closeReasoning(m, threadId, turnId, event.ts)
                       ELSE m
             found == getOrCreateStep(closed, threadId, The(item.id),
                                      mapStepKind(item.type), turnId)
             step == stepAt(found, key)
         IN  setStep(found, key,
                 appendRawEvent([step EXCEPT !.status = "inProgress",
                                             !.tsStart = Some(tsOf(event)),
                                             !.meta = Spread(@, extractItemMeta(item))],
                                event.id))

onItemCompleted(m, event, threadId, turnId) ==
    IF event.payload.item = None \/ Falsy(The(event.payload.item).id) THEN m
    ELSE LET item == The(event.payload.item)
             key == StepKey(threadId, The(item.id))
             found == getOrCreateStep(m, threadId, The(item.id),
                                      mapStepKind(item.type), turnId)
             step == stepAt(found, key)
         IN  setStep(found, key,
                 appendRawEvent([step EXCEPT
                                    !.status = IF item.type = "reasoning" THEN "completed"
                                               ELSE mapStatus(item.status),
                                    !.tsEnd = Some(tsOf(event)),
                                    !.result = extractItemResult(item)],
                                event.id))

\* (step.stream ?? '') + String(delta); the texts are sequences of characters
streamAfterReplaced(stream, delta) == Some(delta)

streamAfter(stream, delta) == Some(The(Coalesce(stream, Some(<<>>))) \o delta)

onDelta(m, event, threadId, turnId) ==
    IF Falsy(event.payload.itemId) THEN m
    ELSE LET itemId == The(event.payload.itemId)
             key == StepKey(threadId, itemId)
             found == getOrCreateStep(m, threadId, itemId,
                                      inferKindFromDelta(event.type), turnId)
             step == stepAt(found, key)
             delta == The(Coalesce(event.payload.delta,
                                   Coalesce(event.payload.text, Some(<<>>))))
         IN  setStep(found, key,
                 appendRawEvent([step EXCEPT !.stream = streamAfter(@, delta)],
                                event.id))

onRequestApproval(m, event, threadId, turnId) ==
    IF Falsy(event.payload.itemId) THEN m
    ELSE LET itemId == The(event.payload.itemId)
             key == StepKey(threadId, itemId)
             found == getOrCreateStep(m, threadId, itemId,
                                      mapApprovalKind(event.type), turnId)
             step == stepAt(found, key)
         IN  setStep(found, key,
                 appendRawEvent([step EXCEPT
                                    !.approval = Some(buildApproval(event, event.payload)),
                                    !.status = "pending"],
                                event.id))

\* IrMapper.consume: the mapper afterwards (the call returns the run of the
\* event's thread, or undefined when the event names no thread)
consume(m, event) ==
    LET logged == [m EXCEPT !.rawEvents = Append(@, event)]
        threadId == Coalesce(event.threadId, extractThreadId(event.payload))
    IN  IF Falsy(threadId) THEN logged
        ELSE LET turnId == Coalesce(event.turnId, extractTurnId(event.payload))
                 t == The(threadId)
                 run == getOrCreateRun(logged, t)
             IN  CASE event.type = "thread/started" -> onThreadStarted(run, event, t)
                   [] event.type = "turn/started" -> onTurnStarted(run, event, t, turnId)
                   [] event.type = "turn/completed" -> onTurnCompleted(run, event, t, turnId)
                   [] event.type = "turn/plan/updated" -> onPlanUpdated(run, event, t, turnId)
                   [] event.type = "turn/diff/updated" -> onDiffUpdated(run, event, t, turnId)
                   [] event.type = "thread/tokenUsage/updated" ->
                        onTokenUsageUpdated(run, event, t)
                   [] event.type = "item/started" -> onItemStarted(run, event, t, turnId)
                   [] event.type = "item/completed" -> onItemCompleted(run, event, t, turnId)
                   [] event.type \in DeltaTypes -> onDelta(run, event, t, turnId)
                   [] event.type \in ApprovalTypes -> onRequestApproval(run, event, t, turnId)
                   [] OTHER -> run

\* RawEvent ids, in the order the events are made
EventIds == <<"evt1", "evt2", "evt3", "evt4", "evt5", "evt6", "evt7", "evt8">>

\* the RawEvents fed to the mapper: a new event gets the next id and the
\* wall clock as ts
NextEventId ==
    EventIds[Cardinality({mapper.rawEvents[i].id : i \in 1..Len(mapper.rawEvents)}) + 1]

RawEvent(type, threadId, turnId, payload) ==
    [id |-> NextEventId, ts |-> now, threadId |-> threadId, turnId |-> turnId,
     rpcId |-> None, type |-> type, payload |-> payload]

ItemEvent(type, threadId, item) ==
    RawEvent(type, Some(threadId), Some("t1"),
             [NoPayload EXCEPT !.threadId = Some(threadId), !.turnId = Some("t1"),
                               !.item = Some(item)])

ItemIdEvent(type, itemId, delta, text) ==
    RawEvent(type, Some("thr1"), Some("t1"),
             [NoPayload EXCEPT !.threadId = Some("thr1"), !.turnId = Some("t1"),
                               !.itemId = Some(itemId), !.delta = delta, !.text = text])

TurnEvent(type, status) ==
    RawEvent(type, None, None,
             [NoPayload EXCEPT !.turn = Some([id |-> Some("t1"), threadId |-> Some("thr1"),
                                              status |-> status])])

ThreadEvent(type, payload) == RawEvent(type, Some("thr1"), Some("t1"), payload)

CommandItem == [NoItem EXCEPT !.id = Some("i1"), !.type = "commandExecution",
                              !.command = Some("ls"), !.cwd = Some("/")]

CompletedCommandItem(status) ==
    [NoItem EXCEPT !.id = Some("i1"), !.type = "commandExecution", !.status = status,
                   !.aggregatedOutput = Some("ok"), !.exitCode = Some(0)]

ReasoningItem(status) ==
    [NoItem EXCEPT !.id = Some("i2"), !.type = "reasoning", !.status = status]

\* the events of the life of the items i1 (a command) and i2 (reasoning)
LifecycleEvents ==
    {ItemEvent("item/started", "thr1", CommandItem),
     ItemEvent("item/started", "thr1", ReasoningItem(None)),
     ItemEvent("item/completed", "thr1", ReasoningItem(Some("inProgress")))}
    \cup {ItemEvent("item/completed", "thr1", CompletedCommandItem(status)) :
             status \in {None, Some("failed"), Some("inProgress")}}
    \cup {ItemIdEvent("item/commandExecution/outputDelta", "i1", Some(delta), None) :
             delta \in {<<"a">>, <<"b">>}}
    \cup {ItemIdEvent("item/reasoning/textDelta", "i2", None, Some(<<"c">>)),
          TurnEvent("turn/completed", Some("completed"))}

IrEvents ==
    LifecycleEvents
    \cup {ItemIdEvent(CmdMethod, "i1", None, None),
          ItemEvent("item/started", "thr2", CommandItem),
          TurnEvent("turn/started", None),
          TurnEvent("turn/completed", None),
          RawEvent("item/started", Some("thr1"), Some("t2"),
                   [NoPayload EXCEPT !.item = Some([NoItem EXCEPT !.id = Some("i3"),
                                                                  !.type = "reasoning"])]),
          RawEvent("thread/started", None, None,
                   [NoPayload EXCEPT !.thread = Some([id |-> Some("thr1")])]),
          ThreadEvent("turn/diff/updated", [NoPayload EXCEPT !.diff = Some("d")]),
          ThreadEvent("thread/tokenUsage/updated", [NoPayload EXCEPT !.totalTokens = Some(7)]),
          ThreadEvent("account/updated", NoPayload),
          RawEvent("item/started", None, None, [NoPayload EXCEPT !.item = Some(CommandItem)])}
    \cup {ThreadEvent("turn/plan/updated", [NoPayload EXCEPT !.plan = Some(plan)]) :
             plan \in {<<"p1">>, <<"p2">>}}

\* the runs of a mapper after each event of a sequence fed to it
RECURSIVE snapshotsOf(_, _)
snapshotsOf(m, events) ==
    IF events = <<>> THEN <<>>
    ELSE LET after == consume(m, Head(events))
         IN  <<after.runs>> \o snapshotsOf(after, Tail(events))

\* mapper.consume(event)
IrConsume(event) ==
    /\ replay = <<>>
    /\ mapper' = consume(mapper, event)
    /\ snapshots' = Append(snapshots, mapper'.runs)
    /\ UNCHANGED <<sessVars, connVars, brokerVars, outVars, polVars, trafficVars, supVars,
                   clsVars, evVars, replay>>

\* an event consumed before is delivered to the mapper again
IrRedeliver(i) ==
    /\ i \in 1..Len(mapper.rawEvents)
    /\ Len(mapper.rawEvents) < MaxEvents
    /\ IrConsume(mapper.rawEvents[i])

\* nanoid(): the k-th id the gateway generates, 21 characters of the
\* alphabet A-Za-z0-9_-
nanoid(k) == <<"V1StGXR8_Z5jdHi6B-myT", "Uakgb_J5m9g-0JDMbcJqL">>[k]

\* IR tap: the supervisor of session 1 makes a RawEvent of the approval
\* request the agent sent (type = method, rpcId = the request's id, payload =
\* its params) and passes it to its mapper
IrTapApproval(i) ==
    /\ i \in 1..Len(requests)
    /\ requests[i].sessionId = 1
    /\ \A n \in 1..Len(mapper.rawEvents) :
          mapper.rawEvents[n].rpcId # Some(requests[i].rpcId)
    /\ LET itemId == "item" \o numberToString(requests[i].rpcId)
       IN  IrConsume([RawEvent(requests[i].request.method, Some("thr1"), Some("t1"),
                               [NoPayload EXCEPT !.threadId = Some("thr1"),
                                                 !.turnId = Some("t1"),
                                                 !.itemId = Some(itemId)])
                      EXCEPT !.rpcId = Some(requests[i].rpcId)])

\* a new IrMapper is fed the events the first one has consumed
IrReplay ==
    /\ replay = <<>>
    /\ mapper.rawEvents # <<>>
    /\ replay' = snapshotsOf(NewMapper, mapper.rawEvents)
    /\ UNCHANGED <<sessVars, connVars, brokerVars, outVars, polVars, trafficVars, supVars,
                   clsVars, evVars, mapper, snapshots>>

-----------------------------------------------------------------------------
(* Policy check *)

PolicyEvaluate ==
    /\ polResult = "none"
    /\ polReq \in PolicyRequests
    /\ polResult' = evaluate(polReq, polCfg)
    /\ UNCHANGED <<sessVars, connVars, brokerVars, outVars, polReq, polCfg,
                   trafficVars, supVars,
                   irVars, clsVars, evVars>>

-----------------------------------------------------------------------------
(* Specifications *)

InitSystem ==
    /\ now = 0
    /\ sessions = EmptyMap
    /\ userSessions = [u \in Users |-> 0]
    /\ nextSessionId = 0
    /\ creating = EmptyMap
    /\ spawned = {}
    /\ connections = EmptyMap
    /\ userConnections = [u \in Users |-> 0]
    /\ nextConnId = 0
    /\ pendingApprovals = EmptyMap
    /\ timers = EmptyMap
    /\ nextApprovalId = 0
    /\ requests = <<>>
    /\ agentIn = <<>>
    /\ auditLogs = <<>>
    /\ clientFrames = <<>>
    /\ errorLog = {}
    /\ detached = EmptyMap
    /\ stdinLog = <<>>
    /\ sessionErrors = <<>>
    /\ messagesHandled = 0
    /\ requestIdCounter = 0
    /\ calls = <<>>
    /\ pendingRequests = EmptyMap
    /\ rpcTimers = {}
    /\ supProc = "none"
    /\ supReader = "none"
    /\ supEvents = <<>>
    /\ supConsole = <<>>
    /\ linesRead = 0
    /\ eventsRead = [sessionId \in 1..MaxSessions |-> 0]
    /\ mapper = NewMapper
    /\ snapshots = <<>>
    /\ replay = <<>>

Init ==
    /\ InitSystem
    /\ polReq = NoRequest
    /\ polCfg = NoConfig
    /\ polResult = "none"
    /\ errDetails = <<>>
    /\ errSummary = "none"

\* the session registry on its own
RegistryNext ==
    \/ \E userId \in Users : Connect(userId)
    \/ \E sessionId \in 1..MaxSessions : InitializeOk(sessionId)
    \/ \E sessionId \in 1..MaxSessions : InitializeFail(sessionId)
    \/ \E sessionId \in 1..MaxSessions : AgentExit(sessionId)
    \/ \E connectionId \in 1..MaxConns : Disconnect(connectionId)
    \/ CleanupIdleSessions
    \/ Tick

RegistrySpec == Init /\ [][RegistryNext]_vars

\* registry and gateway with the clients' requests to the agent, within
\* one idle period (no sweep destroys a session)
TrafficNext ==
    \/ \E userId \in Users : Connect(userId)
    \/ \E sessionId \in 1..MaxSessions : InitializeOk(sessionId)
    \/ \E sessionId \in 1..MaxSessions : InitializeFail(sessionId)
    \/ \E sessionId \in 1..MaxSessions : AgentExit(sessionId)
    \/ \E connectionId \in 1..MaxConns : Disconnect(connectionId)
    \/ \E connectionId \in 1..MaxConns, method \in UserMethods :
          UserRequest(connectionId, method)
    \/ \E i \in 1..MaxMessages, type \in {"response", "error"} : UserRequestSettled(i, type)

TrafficSpec == Init /\ [][TrafficNext]_vars

\* registry and gateway with the registry's 'session-error' events
EventNext ==
    \/ RegistryNext
    \/ \E sessionId \in 1..MaxSessions : AgentEvent(sessionId)

EventSpec == Init /\ [][EventNext]_vars

\* the broker with one user, and the mapper of session 1's supervisor
ViewNext ==
    \/ \E userId \in BrokerUsers :
          /\ Connect(userId)
          /\ nextSessionId' <= BrokerSessions
          /\ nextConnId' <= BrokerConns
    \/ \E sessionId \in 1..MaxSessions : InitializeOk(sessionId)
    \/ Tick
    \/ \E sessionId \in 1..MaxSessions, request \in AgentRequests :
          AgentRequestApproval(sessionId, request)
    \/ \E i \in 1..MaxRequests : IrTapApproval(i)
    \/ \E approvalId \in ApprovalIds : ApprovalTimeout(approvalId)
    \/ \E connectionId \in 1..MaxConns, approvalId \in ApprovalIds,
          answer \in ClientAnswers :
          ApprovalRespond(connectionId, approvalId, answer[1], answer[2])

ViewSpec == Init /\ [][ViewNext]_vars

ErrorNext ==
    \/ RegistryNext
    \/ \E sessionId \in 1..MaxSessions, chunk \in StderrChunks :
          SessionError(sessionId, chunk)

ErrorSpec == Init /\ [][ErrorNext]_vars

\* registry, gateway and broker together
Next ==
    \/ \E userId \in BrokerUsers :
          /\ Connect(userId)
          /\ nextSessionId' <= BrokerSessions
          /\ nextConnId' <= BrokerConns
    \/ \E sessionId \in 1..MaxSessions : InitializeOk(sessionId)
    \/ \E sessionId \in 1..MaxSessions : InitializeFail(sessionId)
    \/ \E sessionId \in 1..MaxSessions : AgentExit(sessionId)
    \/ \E connectionId \in 1..MaxConns : Disconnect(connectionId)
    \/ CleanupIdleSessions
    \/ Tick
    \/ \E sessionId \in 1..MaxSessions, request \in AgentRequests :
          AgentRequestApproval(sessionId, request)
    \/ \E approvalId \in ApprovalIds : ApprovalTimeout(approvalId)
    \/ \E connectionId \in 1..MaxConns, approvalId \in ApprovalIds,
          answer \in ClientAnswers :
          ApprovalRespond(connectionId, approvalId, answer[1], answer[2])

Spec == Init /\ [][Next]_vars

\* timers fire, handshakes settle and time passes
Fairness ==
    /\ WF_vars(Tick)
    /\ \A approvalId \in ApprovalIds : WF_vars(ApprovalTimeout(approvalId))
    /\ \A sessionId \in 1..MaxSessions : WF_vars(InitializeFail(sessionId))

FairSpec == Spec /\ Fairness

PolicyInit ==
    /\ InitSystem
    /\ polReq \in PolicyRequests
    /\ polCfg \in PolicyConfigs
    /\ polResult = "none"
    /\ errDetails = <<>>
    /\ errSummary = "none"

PolicyNext == PolicyEvaluate

PolicySpec == PolicyInit /\ [][PolicyNext]_vars

\* the classifier of process errors on its own
ClassifierInit ==
    /\ InitSystem
    /\ polReq = NoRequest
    /\ polCfg = NoConfig
    /\ polResult = "none"
    /\ errDetails \in DetailsTexts
    /\ errSummary = "none"

ClassifierNext == Summarize

ClassifierSpec == ClassifierInit /\ [][ClassifierNext]_vars

\* one IrMapper fed events as they arrive, redelivered events included, and
\* a second one fed the same events later
IrNext ==
    \/ \E event \in IrEvents : Len(mapper.rawEvents) < MaxEvents /\ IrConsume(event)
    \/ \E i \in 1..MaxEvents : IrRedeliver(i)
    \/ IrReplay
    \/ Tick

IrSpec == Init /\ [][IrNext]_vars

\* one IrMapper fed the events of the life of two items
LifecycleNext ==
    \E event \in LifecycleEvents :
        Len(mapper.rawEvents) < MaxLifecycleEvents /\ IrConsume(event)

LifecycleSpec == Init /\ [][LifecycleNext]_vars

\* one supervisor on its own
SupervisorNext ==
    \/ SupStart
    \/ \E method \in SupMethods : SupCall(method)
    \/ \E c \in 1..MaxCalls : SupTimeout(c)
    \/ \E line \in StdoutLines : SupLine(line)
    \/ \E chunk \in StderrChunks : SupStderr(chunk)
    \/ SupExit
    \/ SupStop

SupervisorSpec == Init /\ [][SupervisorNext]_vars

\* the request timers fire
SupervisorFairness == \A c \in 1..MaxCalls : WF_vars(SupTimeout(c))

SupervisorFairSpec == SupervisorSpec /\ SupervisorFairness

-----------------------------------------------------------------------------
(* Observations used by the properties *)

\* the Responses in log that answer request i: same agent, same rpcId
ResponsesIn(log, i) ==
    {j \in 1..Len(log) :
        log[j].sessionId = requests[i].sessionId /\ log[j].id = requests[i].rpcId}

ResponsesTo(i) == ResponsesIn(agentIn, i)

AuditsOf(i) == {j \in 1..Len(auditLogs) : auditLogs[j].req = i}

OpenSessionsOf(userId) ==
    {sid \in DOMAIN sessions :
        sessions[sid].userId = userId /\ sessions[sid].state # "closed"}

FramesOfType(type) == {j \in 1..Len(clientFrames) : clientFrames[j].type = type}

-----------------------------------------------------------------------------
(* Session registry *)

\* C1: for every userId the registry holds at most one session whose state
\* is not closed.
C1_AtMostOneOpenSessionPerUser ==
    \A userId \in Users : Cardinality(OpenSessionsOf(userId)) <= 1

\* C5: while a createSession call for a user is still awaiting start or the
\* initialize handshake, a further getOrCreateSession call for that user
\* returns the session being created and spawns no further subprocess.
C5_OverlappingCallsShareSession ==
    [][\A sid \in DOMAIN creating :
          ( /\ sid \in DOMAIN sessions
            /\ nextConnId' = nextConnId + 1
            /\ connections'[nextConnId'].userId = sessions[sid].userId )
          => ( /\ connections'[nextConnId'].sessionId = sid
               /\ spawned' = spawned )]_vars

-----------------------------------------------------------------------------
(* Approval broker: safety *)

\* C2: for every agent approval request at most one Response carrying its
\* rpcId is written to that agent.
C2_AtMostOneResponsePerRequest ==
    \A i \in 1..Len(requests) : Cardinality(ResponsesTo(i)) <= 1

\* a request was answered by the deadline timer and a client frame naming
\* its approvalId was rejected
C2_Witness ==
    \E i \in 1..Len(requests) :
        /\ Cardinality(ResponsesTo(i)) = 1
        /\ i \notin DOMAIN pendingApprovals
        /\ i \in errorLog
        /\ \E j \in AuditsOf(i) : auditLogs[j].approver = "timeout"

\* C7: when the policy engine returns accept or decline, the step that
\* receives the request writes a Response with that decision and the
\* request's rpcId, appends one audit entry with approver policy_engine and
\* autoApproved true, sends no frame to the client and leaves the pending
\* table and the timers alone.
C7_PolicyDecisionIsImmediate ==
    [][Len(requests') = Len(requests) + 1 =>
          LET i == Len(requests')
              r == requests'[i]
              decision == evaluate(r.request, approvalConfig)
          IN  decision \in {"accept", "decline"} =>
                 /\ agentIn' = Append(agentIn,
                        [sessionId |-> r.sessionId, id |-> r.rpcId,
                         decision |-> decision, acceptSettings |-> "undefined"])
                 /\ auditLogs' = Append(auditLogs,
                        [userId |-> sessions[r.sessionId].userId,
                         sessionId |-> r.sessionId, req |-> i, decision |-> decision,
                         approver |-> "policy_engine", autoApproved |-> TRUE])
                 /\ clientFrames' = clientFrames
                 /\ pendingApprovals' = pendingApprovals
                 /\ timers' = timers]_vars

\* a request was accepted by the policy: answered, audited, never pending,
\* never shown to the client
C7_Witness ==
    \E i \in 1..Len(requests) :
        /\ \E j \in ResponsesTo(i) : agentIn[j].decision = "accept"
        /\ \E j \in AuditsOf(i) :
              auditLogs[j].approver = "policy_engine" /\ auditLogs[j].autoApproved
        /\ userConnections[sessions[requests[i].sessionId].userId] # 0
        /\ FramesOfType("approval/request") = {}

\* C8: an approval/respond of a connection for a pending approvalId of the
\* connection's own session cancels the timer, writes a Response with the
\* original rpcId and the client's decision and acceptSettings, appends an
\* audit entry with approver user_<userId> and autoApproved false, and
\* removes the entry.
C8_ClientResponseResolves ==
    [][\A cid \in DOMAIN connections, aid \in DOMAIN pendingApprovals,
          answer \in ClientAnswers :
          ( /\ ApprovalRespond(cid, aid, answer[1], answer[2])
            /\ pendingApprovals[aid].sessionId = connections[cid].sessionId )
          => LET pending == pendingApprovals[aid]
                 request == requests[pending.req]
             IN  /\ aid \notin DOMAIN timers'
                 /\ agentIn' = Append(agentIn,
                        [sessionId |-> request.sessionId, id |-> request.rpcId,
                         decision |-> answer[1], acceptSettings |-> answer[2]])
                 /\ auditLogs' = Append(auditLogs,
                        [userId |-> pending.userId, sessionId |-> pending.sessionId,
                         req |-> pending.req, decision |-> answer[1],
                         approver |-> "user_" \o pending.userId,
                         autoApproved |-> FALSE])
                 /\ aid \notin DOMAIN pendingApprovals']_vars

\* the client accepted a request for the session: Response and audit entry
\* are there, entry and timer are gone
C8_Witness ==
    \E i \in 1..Len(requests) :
        /\ \E j \in ResponsesTo(i) :
              agentIn[j].decision = "accept" /\ agentIn[j].acceptSettings = "forSession"
        /\ \E j \in AuditsOf(i) :
              auditLogs[j].approver = "user_u1" /\ ~auditLogs[j].autoApproved
        /\ i \notin DOMAIN pendingApprovals
        /\ i \notin DOMAIN timers

\* C9: an approval/respond whose approvalId is unknown, or whose entry
\* belongs to another session than the sending connection's, writes no
\* Response and no audit entry and leaves the pending table and the timers
\* unchanged.
C9_InvalidResponseDropped ==
    [][\A cid \in DOMAIN connections, aid \in ApprovalIds, answer \in ClientAnswers :
          ( /\ ApprovalRespond(cid, aid, answer[1], answer[2])
            /\ \/ aid \notin DOMAIN pendingApprovals
               \/ pendingApprovals[aid].sessionId # connections[cid].sessionId )
          => UNCHANGED <<agentIn, auditLogs, pendingApprovals, timers>>]_vars

\* a response was rejected for an approvalId that is pending for one
\* session while an open connection is bound to another registered session
C9_Witness ==
    \E aid \in DOMAIN pendingApprovals, cid \in DOMAIN connections :
        /\ aid \in errorLog
        /\ connections[cid].open
        /\ connections[cid].sessionId \in DOMAIN sessions
        /\ connections[cid].sessionId # pendingApprovals[aid].sessionId
        /\ aid \in DOMAIN timers
        /\ ResponsesTo(pendingApprovals[aid].req) = {}

-----------------------------------------------------------------------------
(* Approval broker: deadlines *)

\* the deadline of a pending entry: the time its timer was set for
Deadline(approvalId) == pendingApprovals[approvalId].createdAt + timeoutMs

\* C3: every approval request received from an agent is eventually
\* answered with a Response carrying its rpcId.
C3_EveryRequestAnswered ==
    \A i \in 1..MaxRequests :
        (Len(requests) >= i) ~> (Len(requests) >= i /\ ResponsesTo(i) # {})

\* a file-change request, which no policy rule accepts, was answered
\* although no client frame ever named it
C3_Witness ==
    \E i \in 1..Len(requests) :
        /\ requests[i].request.method = FileMethod
        /\ ResponsesTo(i) # {}
        /\ errorLog = {}
        /\ \A j \in AuditsOf(i) : auditLogs[j].approver = "timeout"

\* C4: every entry of the pending table is eventually removed; the step
\* that removes it appends an audit entry for its request; no entry is in
\* the table after its deadline has passed.
C4_PendingRemovedAndAudited ==
    /\ \A aid \in ApprovalIds :
          (aid \in DOMAIN pendingApprovals) ~> (aid \notin DOMAIN pendingApprovals)
    /\ [][\A aid \in DOMAIN pendingApprovals :
             aid \notin DOMAIN pendingApprovals' =>
                /\ Len(auditLogs') = Len(auditLogs) + 1
                /\ auditLogs'[Len(auditLogs')].req = pendingApprovals[aid].req]_vars
    /\ [](\A aid \in DOMAIN pendingApprovals : now <= Deadline(aid))

\* two entries were pending together and both are gone, each with its
\* audit entry
C4_Witness ==
    /\ Len(requests) = 2
    /\ pendingApprovals = EmptyMap
    /\ \A i \in 1..2 : Cardinality(AuditsOf(i)) = 1
    /\ \E j \in AuditsOf(1) : auditLogs[j].approver = "timeout"
    /\ \E j \in AuditsOf(2) : auditLogs[j].approver = "user_u1"
    /\ now >= 1

\* C6: when the deadline timer fires for an entry that is still pending,
\* one Response with the configured defaultAction is written for its
\* request and is the only Response for it, one audit entry with decision
\* timeout and approver timeout is appended, and the entry is removed; and
\* an entry whose deadline is reached is eventually removed.
C6_TimeoutSendsDefaultOnce ==
    /\ [][\A aid \in DOMAIN pendingApprovals :
             ApprovalTimeout(aid) =>
                LET pending == pendingApprovals[aid]
                    request == requests[pending.req]
                IN  /\ agentIn' = Append(agentIn,
                           [sessionId |-> request.sessionId, id |-> request.rpcId,
                            decision |-> defaultAction, acceptSettings |-> "undefined"])
                    /\ Cardinality(ResponsesIn(agentIn', pending.req)) = 1
                    /\ auditLogs' = Append(auditLogs,
                           [userId |-> pending.userId, sessionId |-> pending.sessionId,
                            req |-> pending.req, decision |-> "timeout",
                            approver |-> "timeout", autoApproved |-> FALSE])
                    /\ aid \notin DOMAIN pendingApprovals']_vars
    /\ \A aid \in ApprovalIds :
          (aid \in DOMAIN pendingApprovals /\ now >= Deadline(aid))
             ~> (aid \notin DOMAIN pendingApprovals)

\* a command that needs manual approval ran into its deadline after the
\* user's connection had gone
C6_Witness ==
    \E i \in 1..Len(requests) :
        /\ requests[i].request.method = CmdMethod
        /\ \E j \in ResponsesTo(i) : agentIn[j].decision = defaultAction
        /\ \E j \in AuditsOf(i) : auditLogs[j].decision = "timeout"
        /\ i \notin DOMAIN pendingApprovals
        /\ userConnections["u1"] = 0

-----------------------------------------------------------------------------
(* Policy engine *)

\* rule 1: the first white-space-delimited token of the command is in the
\* built-in set and the command contains no '>'
RuleReadOnly(command) ==
    /\ \A k \in 1..Len(command) : command[k] # ">"
    /\ \E i \in 1..Len(command), j \in 1..Len(command) :
          /\ i <= j
          /\ \A k \in 1..(i - 1) : command[k] = " "
          /\ \A k \in i..j : command[k] # " "
          /\ j = Len(command) \/ command[j + 1] = " "
          /\ [k \in 1..(j - i + 1) |-> command[i + k - 1]] \in readOnlyCommands

\* rule 2: the command starts with a configured prefix
RulePrefix(command, config) ==
    \E cmd \in config.commands :
        \A k \in 1..Len(cmd) : k <= Len(command) /\ command[k] = cmd[k]

\* pattern as an anchored regular expression with '*' standing for '.*':
\* cut[k] is how much of path the first k pattern characters consume
GlobMatches(path, pattern) ==
    \E cut \in [0..Len(pattern) -> 0..Len(path)] :
        /\ cut[0] = 0
        /\ cut[Len(pattern)] = Len(path)
        /\ \A k \in 1..Len(pattern) :
              IF pattern[k] = "*" THEN cut[k] >= cut[k - 1]
              ELSE /\ cut[k] = cut[k - 1] + 1
                   /\ pattern[k] = "." \/ pattern[k] = path[cut[k]]

\* rule 3: cwd matches a configured path glob
RulePath(cwd, config) == \E pattern \in config.paths : GlobMatches(cwd, pattern)

\* C10: evaluate returns accept for a command request exactly when rule 1,
\* 2 or 3 applies, manual for every other command request and manual for
\* every file-change request.
C10_EvaluateFollowsRules ==
    polResult # "none" =>
        /\ polResult \in {"accept", "manual"}
        /\ polResult = "accept" <=>
              /\ polReq.method = CmdMethod
              /\ \/ RuleReadOnly(polReq.command)
                 \/ RulePrefix(polReq.command, polCfg)
                 \/ RulePath(polReq.cwd, polCfg)
        /\ polReq.method = FileMethod => polResult = "manual"

\* a command that is neither read-only nor whitelisted was accepted for its
\* working directory
C10_Witness ==
    /\ polResult = "accept"
    /\ ~RuleReadOnly(polReq.command)
    /\ ~RulePrefix(polReq.command, polCfg)
    /\ Includes(polReq.command, ">")
    /\ polReq.cwd = <<"/", "t", "t">>

-----------------------------------------------------------------------------
(* Supervisor: request waiters *)

\* the calls whose waiter has not been settled
Unsettled == {c \in 1..Len(calls) : calls[c].settled = <<>>}

\* the events a step emits
NewEvents == SubSeq(supEvents', Len(supEvents) + 1, Len(supEvents'))

\* C11: each call's waiter is settled at most once and eventually once: by
\* the Response with its id (resolved, or rejected when error is set) or by
\* its timer (rejected with a timeout), whichever comes first; its entry is
\* in the pending table exactly while it is unsettled; a Response whose id
\* has no entry changes nothing.
C11_WaiterSettledExactlyOnce ==
    /\ [](\A c \in 1..Len(calls) :
            /\ Len(calls[c].settled) <= 1
            /\ c \in Unsettled <=>
                  /\ calls[c].id \in DOMAIN pendingRequests
                  /\ pendingRequests[calls[c].id] = c)
    /\ \A c \in 1..MaxCalls :
          (Len(calls) >= c) ~> (Len(calls) >= c /\ Len(calls[c].settled) = 1)
    /\ [][\A c \in Unsettled :
             c \notin Unsettled' =>
                \/ /\ c \in rpcTimers /\ c \notin rpcTimers'
                   /\ calls'[c].settled = <<"rejected_timeout">>
                \/ \E line \in StdoutLines :
                      /\ SupLine(line)
                      /\ line.id = calls[c].id
                      /\ calls'[c].settled =
                            <<IF line.error THEN "rejected_error" ELSE "resolved">>]_vars
    /\ [][\A line \in StdoutLines :
             (SupLine(line) /\ line.id \notin DOMAIN pendingRequests)
                => UNCHANGED <<calls, pendingRequests, rpcTimers, requestIdCounter>>]_vars

\* one call was resolved by its Response and the other rejected by its
\* timer, and a further line that settled nothing was read
C11_Witness ==
    /\ Len(calls) = 2
    /\ calls[1].settled = <<"resolved">>
    /\ calls[2].settled = <<"rejected_timeout">>
    /\ pendingRequests = EmptyMap
    /\ linesRead = 2
    /\ supConsole = <<>>
    /\ supEvents = <<>>

\* C12: the step in which the subprocess exits rejects every waiter that
\* is in the pending table and leaves the table empty.
C12_ExitRejectsPendingWaiters ==
    [][SupExit =>
          /\ pendingRequests' = EmptyMap
          /\ \A c \in Unsettled : calls'[c].settled # <<>>]_vars

\* C13: the ids of the calls are strictly increasing in call order, and no
\* two unsettled calls share an id.
C13_RequestIdsStrictlyIncreasing ==
    /\ \A c \in 1..Len(calls), d \in 1..Len(calls) : c < d => calls[c].id < calls[d].id
    /\ \A c \in Unsettled, d \in Unsettled : calls[c].id = calls[d].id => c = d
    /\ \A id \in DOMAIN pendingRequests : calls[pendingRequests[id]].id = id

\* two calls are pending together
C13_Witness ==
    /\ Len(calls) = 2
    /\ Unsettled = {1, 2}
    /\ DOMAIN pendingRequests = {calls[1].id, calls[2].id}

-----------------------------------------------------------------------------
(* Supervisor: stdout and stderr *)

\* a line that is not JSON, not an object, or an object with none of the
\* shapes Response, Request, Notification
Malformed(line) ==
    \/ line.json # "object"
    \/ /\ line.method = ""
       /\ ~(line.id # 0 /\ (line.result \/ line.error))

\* C17: a malformed stdout line settles no waiter, emits no event, leaves
\* the pending table unchanged and leaves the reader open; and a Response
\* for a pending id is processed whatever was read before it.
C17_MalformedLineDropped ==
    /\ [][\A line \in StdoutLines :
             (SupLine(line) /\ Malformed(line))
                => /\ UNCHANGED <<calls, pendingRequests, supEvents, rpcTimers, supProc>>
                   /\ supReader' = "open"]_vars
    /\ [][\A line \in StdoutLines :
             (SupLine(line) /\ ~Malformed(line) /\ line.json = "object"
                /\ (line.result \/ line.error) /\ line.id \in DOMAIN pendingRequests)
                => pendingRequests[line.id] \notin Unsettled']_vars

\* a line failed to parse, and a Response and a Notification were
\* processed by the same reader
C17_Witness ==
    /\ supReader = "open"
    /\ Len(supConsole) = 1
    /\ supConsole[1].kind = "Failed to parse JSONL"
    /\ \E c \in 1..Len(calls) : calls[c].settled = <<"resolved">>
    /\ \E e \in 1..Len(supEvents) : supEvents[e].name = "event"

\* C18: a Notification or Request line that names a thread makes the
\* supervisor emit an ir/update for the run of that thread.
C18_LineEmitsIrUpdate ==
    [][\A line \in StdoutLines :
          (SupLine(line) /\ line.json = "object" /\ line.method # ""
             /\ line.threadId # "")
             => \E e \in 1..Len(NewEvents) :
                   /\ NewEvents[e].name = "ir/update"
                   /\ NewEvents[e].threadId = line.threadId]_vars

\* C19: a stderr chunk makes the supervisor emit exactly one process-error
\* event with source stderr, the chunk as details and the classifier's
\* summary of the chunk.
C19_StderrEmitsProcessError ==
    [][\A chunk \in StderrChunks :
          SupStderr(chunk)
             => /\ Len(NewEvents) = 1
                /\ NewEvents[1].name = "process-error"
                /\ NewEvents[1].source = "stderr"
                /\ NewEvents[1].details = chunk
                /\ NewEvents[1].summary = summarizeError(chunk)]_vars

-----------------------------------------------------------------------------
(* Failed session creation *)

\* the session whose creation (start or initialize) fails in this step
FailsNow(sid) ==
    /\ sid \in DOMAIN creating
    /\ sid \notin DOMAIN creating'
    /\ ~(sid \in DOMAIN sessions' /\ sessions'[sid].state = "ready")

-----------------------------------------------------------------------------
(* Idle sweep *)

\* the sessions destroySession removes in this step (registered before,
\* afterwards unregistered with the subprocess stopped)
DestroyedNow ==
    {sid \in DOMAIN sessions :
        /\ sid \notin DOMAIN sessions'
        /\ sid \in DOMAIN detached'
        /\ detached'[sid].proc = "stopped"}

\* the condition of the sweep, as the specification states it
SweepCondition(sid) ==
    /\ now - sessions[sid].lastActiveAt > sessionIdleTimeout
    /\ sessions[sid].state # "busy"

\* C16: a sweep destroys a session if and only if now - lastActiveAt is
\* greater than the idle timeout and the session is not busy: no session
\* active within the idle timeout is destroyed, and a sweep that destroys
\* anything destroys every registered session that meets the condition.
C16_SweepDestroysExactlyIdle ==
    [][/\ \A sid \in DestroyedNow : SweepCondition(sid)
       /\ DestroyedNow # {} =>
            /\ \A sid \in DOMAIN sessions : SweepCondition(sid) => sid \in DestroyedNow
            /\ \A sid \in DestroyedNow : detached'[sid].state = "closed"
            /\ DOMAIN sessions' = DOMAIN sessions \ DestroyedNow
      ]_vars

\* a sweep destroyed a session idle for longer than the timeout and left a
\* session registered whose idle time equals the timeout
C16_Witness ==
    /\ \E sid \in DOMAIN detached :
          /\ detached[sid].proc = "stopped"
          /\ detached[sid].state = "closed"
          /\ now - detached[sid].lastActiveAt > sessionIdleTimeout
    /\ \E sid \in DOMAIN sessions :
          /\ now - sessions[sid].lastActiveAt = sessionIdleTimeout
          /\ sessions[sid].state = "ready"

-----------------------------------------------------------------------------
(* User traffic and the handshake *)

\* C15: a user request (thread/start, thread/resume, turn/start,
\* turn/interrupt) is written to an agent's stdin only after that agent's
\* initialize call returned and 'initialized' was sent, i.e. never while the
\* createSession of its session is still in the handshake; also for a second
\* client of the same user that connected during the handshake.
C15_NoUserTrafficBeforeHandshake ==
    [][Len(stdinLog') = Len(stdinLog) + 1 =>
          LET written == stdinLog'[Len(stdinLog')]
          IN  /\ written.method \in UserMethods
              /\ written.session \notin DOMAIN creating
              /\ sessions[written.session].state # "initializing"
      ]_vars

-----------------------------------------------------------------------------
(* session-error forwarding *)

\* C20: when the registry emits 'session-error' for a user who has an open
\* connection, the gateway sends that connection exactly one frame of type
\* 'error' whose payload carries the summary of the error record.
C20_SessionErrorForwarded ==
    [][Len(sessionErrors') = Len(sessionErrors) + 1 =>
          LET emitted == sessionErrors'[Len(sessionErrors')]
              connectionId == userConnections[emitted.userId]
          IN  (/\ connectionId # 0
               /\ connectionId \in DOMAIN connections
               /\ connections[connectionId].open) =>
                 /\ Len(clientFrames') = Len(clientFrames) + 1
                 /\ clientFrames'[Len(clientFrames')].conn = connectionId
                 /\ clientFrames'[Len(clientFrames')].type = "error"
                 /\ clientFrames'[Len(clientFrames')].payload = emitted.error.summary
      ]_vars

-----------------------------------------------------------------------------
(* Classifier of process errors *)

\* character a is the letter b (lower case) in either case
SameLetter(a, b) ==
    a = b \/ \E j \in 1..Len(UpperCase) : a = UpperCase[j] /\ b = LowerCase[j]

\* the text contains the word, compared without regard to case
ContainsIgnoringCase(text, word) ==
    \E i \in 1..Len(text) :
        /\ i + Len(word) - 1 <= Len(text)
        /\ \A k \in 1..Len(word) : SameLetter(text[i + k - 1], word[k])

\* C21: summarizeError maps the details, compared case-insensitively, to the
\* auth summary when they contain '401' or 'invalid_api_key', otherwise to
\* the timeout summary when they contain 'timeout', otherwise to the generic
\* summary; the auth rule wins when both substrings occur.
C21_SummaryFollowsRules ==
    errSummary # "none" =>
        errSummary =
            IF \/ ContainsIgnoringCase(errDetails, <<"4","0","1">>)
               \/ ContainsIgnoringCase(errDetails, <<"i","n","v","a","l","i","d","_","a","p","i","_","k","e","y">>)
            THEN "auth failed: API Key invalid"
            ELSE IF ContainsIgnoringCase(errDetails, <<"t","i","m","e","o","u","t">>)
            THEN "request timeout"
            ELSE "Codex process error"

\* details with 'TIMEOUT' before 'INVALID_API_KEY', both in capitals, were
\* given the auth summary
C21_Witness ==
    /\ errSummary = "auth failed: API Key invalid"
    /\ errDetails = <<"T","I","M","E","O","U","T">> \o <<"I","N","V","A","L","I","D","_","A","P","I","_","K","E","Y">>

-----------------------------------------------------------------------------
(* IR mapper: steps *)

TerminalStatuses == {"completed", "failed", "declined"}

\* the steps of the mapper's runs, named by run and position
StepRefs(m) ==
    {ref \in (DOMAIN m.runs) \X (1..(MaxEvents + MaxLifecycleEvents)) :
        ref[2] <= Len(m.runs[ref[1]].steps)}

StepOf(m, ref) == m.runs[ref[1]].steps[ref[2]]

\* the thread and the item a consumed event names
EventThread(event) == Coalesce(event.threadId, extractThreadId(event.payload))

EventItemId(event) ==
    IF event.type \in {"item/started", "item/completed"}
    THEN IF event.payload.item = None THEN None ELSE The(event.payload.item).id
    ELSE IF event.type \in DeltaTypes \cup ApprovalTypes
    THEN event.payload.itemId
    ELSE None

\* C23: along any event sequence a step's status only moves forward on
\* pending -> inProgress -> {completed, failed, declined}: no event moves a
\* step from inProgress back to pending, or from a terminal status back to
\* pending or inProgress.
C23_StatusOnlyMovesForward ==
    [][\A ref \in StepRefs(mapper) :
          LET before == StepOf(mapper, ref).status
              after == mapper'.runs[ref[1]].steps[ref[2]].status
          IN  /\ before = "inProgress" => after # "pending"
              /\ before \in TerminalStatuses => after \notin {"pending", "inProgress"}
      ]_vars

\* old is a prefix of new, for optional texts
StreamExtended(old, new) ==
    old # None =>
        /\ new # None
        /\ Len(The(old)) <= Len(The(new))
        /\ SubSeq(The(new), 1, Len(The(old))) = The(old)

\* C24: once a step is completed, failed or declined, no later event changes
\* its kind or its tsStart, and its stream is only extended.
C24_TerminalStepKeepsKindAndStart ==
    [][\A ref \in StepRefs(mapper) :
          LET before == StepOf(mapper, ref)
              after == mapper'.runs[ref[1]].steps[ref[2]]
          IN  before.status \in TerminalStatuses =>
                /\ after.kind = before.kind
                /\ after.tsStart = before.tsStart
                /\ StreamExtended(before.stream, after.stream)
      ]_vars

\* C25: an item/completed event with a terminal status that was consumed
\* before, delivered again while its step is in that terminal status, leaves
\* every RunView as it was (status, tsEnd, result and rawEventIds included).
C25_ReplayedCompletionChangesNothing ==
    [][Len(mapper'.rawEvents) = Len(mapper.rawEvents) + 1 =>
          LET event == mapper'.rawEvents[Len(mapper'.rawEvents)]
              key == StepKey(The(EventThread(event)), The(EventItemId(event)))
          IN  (/\ event.type = "item/completed"
               /\ \E i \in 1..Len(mapper.rawEvents) : mapper.rawEvents[i] = event
               /\ key \in DOMAIN mapper.steps
               /\ stepAt(mapper, key).status \in TerminalStatuses
               /\ stepAt(mapper, key).status =
                      IF The(event.payload.item).type = "reasoning" THEN "completed"
                      ELSE mapStatus(The(event.payload.item).status))
              => mapper'.runs = mapper.runs
      ]_vars

-----------------------------------------------------------------------------
(* IR mapper: determinism and time stamps *)

TsNonDecreasing(events) ==
    \A i, j \in 1..Len(events) : i <= j => events[i].ts <= events[j].ts

\* C27: after any sequence of events whose ts values are non-decreasing,
\* every step whose status is completed, failed or declined has tsEnd set,
\* and tsEnd >= tsStart when tsStart is set.
C27_TerminalStepHasEnd ==
    TsNonDecreasing(mapper.rawEvents) =>
        \A ref \in StepRefs(mapper) :
            LET step == StepOf(mapper, ref)
            IN  step.status \in TerminalStatuses =>
                  /\ step.tsEnd # None
                  /\ step.tsStart # None => The(step.tsEnd) >= The(step.tsStart)

\* a reasoning step closed by the start of the next item, later than its own
\* start
C27_Witness ==
    /\ TsNonDecreasing(mapper.rawEvents)
    /\ \E ref \in StepRefs(mapper) :
          LET step == StepOf(mapper, ref)
          IN  /\ step.kind = "reasoning"
              /\ step.status = "completed"
              /\ step.tsStart = Some(0)
              /\ step.tsEnd = Some(1)
              /\ \A n \in 1..Len(mapper.rawEvents) :
                    mapper.rawEvents[n].type = "item/started"

-----------------------------------------------------------------------------
(* IR mapper: the steps list, the plan and the life of one item *)

Threads == {"thr1", "thr2"}

RunSteps(m, threadId) ==
    IF threadId \in DOMAIN m.runs THEN m.runs[threadId].steps ELSE <<>>

ItemIdsOf(steps) == [i \in 1..Len(steps) |-> steps[i].itemId]

\* C28: a run's steps list is append-only: an event leaves the steps that are
\* there at their positions, appends a step exactly when it names an itemId
\* the run has no step for, and no two steps of a run have the same itemId.
C28_StepsAppendOnly ==
    [][\A threadId \in Threads :
          LET old == ItemIdsOf(RunSteps(mapper, threadId))
              new == ItemIdsOf(RunSteps(mapper', threadId))
              event == mapper'.rawEvents[Len(mapper'.rawEvents)]
              firstSeen ==
                  /\ Len(mapper'.rawEvents) = Len(mapper.rawEvents) + 1
                  /\ EventThread(event) = Some(threadId)
                  /\ EventItemId(event) # None
                  /\ \A i \in 1..Len(old) : old[i] # The(EventItemId(event))
          IN  /\ new = IF firstSeen THEN Append(old, The(EventItemId(event))) ELSE old
              /\ \A i, j \in 1..Len(new) : new[i] = new[j] => i = j
      ]_vars

\* i2 was seen before i1 in thr1, and thr2 has a step for its own i1
C28_Witness ==
    /\ ItemIdsOf(RunSteps(mapper, "thr1")) = <<"i2", "i1">>
    /\ ItemIdsOf(RunSteps(mapper, "thr2")) = <<"i1">>

RECURSIVE PlanUpdates(_, _)
PlanUpdates(events, threadId) ==
    IF events = <<>> THEN <<>>
    ELSE IF /\ Head(events).type = "turn/plan/updated"
            /\ EventThread(Head(events)) = Some(threadId)
         THEN <<Head(events)>> \o PlanUpdates(Tail(events), threadId)
         ELSE PlanUpdates(Tail(events), threadId)

\* C29: after n >= 1 turn/plan/updated events for a thread, plan has the steps
\* of the latest one and plan.history has the n - 1 earlier versions
\* (updatedAt and steps) in arrival order.
C29_PlanHistoryKeepsVersions ==
    \A threadId \in Threads :
        LET updates == PlanUpdates(mapper.rawEvents, threadId)
            n == Len(updates)
        IN  n >= 1 =>
              /\ threadId \in DOMAIN mapper.runs
              /\ mapper.runs[threadId].plan # None
              /\ LET plan == The(mapper.runs[threadId].plan)
                 IN  /\ plan.steps = The(updates[n].payload.plan)
                     /\ plan.updatedAt = updates[n].ts
                     /\ IF n = 1 THEN plan.history = None
                        ELSE plan.history =
                               Some([k \in 1..(n - 1) |->
                                       [updatedAt |-> updates[k].ts,
                                        steps |-> The(updates[k].payload.plan)]])

\* three updates at three times: two versions in the history
C29_Witness ==
    /\ "thr1" \in DOMAIN mapper.runs
    /\ mapper.runs["thr1"].plan # None
    /\ LET plan == The(mapper.runs["thr1"].plan)
       IN  /\ plan.steps = <<"p1">>
           /\ plan.updatedAt = 2
           /\ plan.history = Some(<<[updatedAt |-> 0, steps |-> <<"p1">>],
                                    [updatedAt |-> 1, steps |-> <<"p2">>]>>)

RECURSIVE EventsOfItem(_, _)
EventsOfItem(events, itemId) ==
    IF events = <<>> THEN <<>>
    ELSE IF EventItemId(Head(events)) = Some(itemId)
         THEN <<Head(events)>> \o EventsOfItem(Tail(events), itemId)
         ELSE EventsOfItem(Tail(events), itemId)

\* the texts of the delta events of a sequence, one after the other
RECURSIVE DeltasOf(_)
DeltasOf(events) ==
    IF events = <<>> THEN <<>>
    ELSE (IF Head(events).payload.delta # None THEN The(Head(events).payload.delta)
          ELSE The(Head(events).payload.text))
         \o DeltasOf(Tail(events))

\* started, deltas, completed
IsLifecycle(events) ==
    /\ Len(events) >= 2
    /\ events[1].type = "item/started"
    /\ events[Len(events)].type = "item/completed"
    /\ \A i \in 2..(Len(events) - 1) : events[i].type \in DeltaTypes

\* C30: when the events of an item are an item/started, then deltas, then an
\* item/completed, the run has exactly one step for the item; its kind is
\* mapped from the started item's type, its status from the completed item's
\* status (completed for reasoning), its stream is the concatenation of the
\* deltas in arrival order, and its result has the completed item's output
\* and exitCode.
C30_LifecycleYieldsOneStep ==
    \A itemId \in {"i1", "i2"} :
        LET events == EventsOfItem(mapper.rawEvents, itemId)
            started == The(events[1].payload.item)
            completed == The(events[Len(events)].payload.item)
            deltas == SubSeq(events, 2, Len(events) - 1)
            steps == RunSteps(mapper, "thr1")
        IN  IsLifecycle(events) =>
              /\ Cardinality({i \in 1..Len(steps) : steps[i].itemId = itemId}) = 1
              /\ \A i \in 1..Len(steps) :
                    steps[i].itemId = itemId =>
                      /\ steps[i].kind = mapStepKind(started.type)
                      /\ steps[i].kind = IF itemId = "i1" THEN "commandExecution"
                                         ELSE "reasoning"
                      /\ steps[i].status =
                            IF completed.type = "reasoning" THEN "completed"
                            ELSE IF completed.status \in
                                      {Some("failed"), Some("inProgress")}
                            THEN The(completed.status)
                            ELSE "completed"
                      /\ steps[i].stream =
                            IF deltas = <<>> THEN None ELSE Some(DeltasOf(deltas))
                      /\ IF completed.type = "commandExecution"
                         THEN /\ steps[i].result # None
                              /\ The(steps[i].result).output = completed.aggregatedOutput
                              /\ The(steps[i].result).output = Some("ok")
                              /\ The(steps[i].result).exitCode = Some(0)
                         ELSE steps[i].result = None

\* the command i1: started, two deltas, completed as failed
C30_Witness ==
    /\ IsLifecycle(EventsOfItem(mapper.rawEvents, "i1"))
    /\ Len(EventsOfItem(mapper.rawEvents, "i1")) = 4
    /\ \E i \in 1..Len(RunSteps(mapper, "thr1")) :
          LET step == RunSteps(mapper, "thr1")[i]
          IN  /\ step.itemId = "i1"
              /\ step.stream = Some(<<"a", "b">>)
              /\ step.status = "failed"
              /\ The(step.result).exitCode = Some(0)

-----------------------------------------------------------------------------
(* Events of a session on the client's connection *)

EventFrames == {i \in 1..Len(clientFrames) : clientFrames[i].type = "event"}

\* C22: the 'event' frames of one session are sent to a connection of the
\* session's user, in the order in which the supervisor read the events from
\* the agent's stdout: of two frames of a session the later one on the wire
\* carries the later event.
C22_EventsInOrderRead ==
    \A i, j \in EventFrames :
        LET first == clientFrames[i]
            second == clientFrames[j]
        IN  /\ first.conn \in DOMAIN connections =>
                  connections[first.conn].userId = first.payload.user
            /\ (i < j /\ first.payload.session = second.payload.session) =>
                  first.payload.seq < second.payload.seq

\* both events of a session were delivered, the first one first
C22_Witness ==
    \E i, j \in EventFrames :
        /\ i < j
        /\ clientFrames[i].payload.session = clientFrames[j].payload.session
        /\ clientFrames[i].payload.seq = 1
        /\ clientFrames[j].payload.seq = 2

-----------------------------------------------------------------------------
(* IR mapper: the cases of consume *)

\* the event of a step of the mapper that consumed one
Consumed == mapper'.rawEvents[Len(mapper'.rawEvents)]

ConsumedOne == Len(mapper'.rawEvents) = Len(mapper.rawEvents) + 1

EventTurn(event) == Coalesce(event.turnId, extractTurnId(event.payload))

\* C31: when item/started arrives for a non-reasoning item, every reasoning
\* step of the same turn that is inProgress becomes completed with tsEnd equal
\* to the event's ts, the item's step is inProgress, and the reasoning steps
\* of other turns are left as they were.
C31_StartClosesReasoningOfTurn ==
    [][(/\ ConsumedOne
        /\ Consumed.type = "item/started"
        /\ EventThread(Consumed) # None
        /\ EventItemId(Consumed) # None
        /\ The(Consumed.payload.item).type # "reasoning"
        /\ EventTurn(Consumed) # None) =>
          LET threadId == The(EventThread(Consumed))
              itemId == The(EventItemId(Consumed))
              after == mapper'.runs[threadId].steps
          IN  /\ \E i \in 1..Len(after) :
                    after[i].itemId = itemId /\ after[i].status = "inProgress"
              /\ \A ref \in StepRefs(mapper) :
                    LET old == StepOf(mapper, ref)
                        new == mapper'.runs[ref[1]].steps[ref[2]]
                    IN  (old.kind = "reasoning" /\ old.itemId # itemId) =>
                          IF /\ ref[1] = threadId
                             /\ old.turnId = EventTurn(Consumed)
                             /\ old.status = "inProgress"
                          THEN new = [old EXCEPT !.status = "completed",
                                                 !.tsEnd = Some(Consumed.ts)]
                          ELSE new = old
      ]_vars

\* i2 of turn t1 was closed by the start of the command i1 one tick after its
\* own start; i3 of turn t2 is still in progress
C31_Witness ==
    /\ Len(mapper.rawEvents) = 3
    /\ mapper.rawEvents[3].type = "item/started"
    /\ "thr1" \in DOMAIN mapper.runs
    /\ \E i, j, k \in 1..Len(RunSteps(mapper, "thr1")) :
          LET steps == RunSteps(mapper, "thr1")
          IN  /\ steps[i].itemId = "i2" /\ steps[i].status = "completed"
              /\ steps[i].tsStart = Some(0) /\ steps[i].tsEnd = Some(1)
              /\ steps[j].itemId = "i3" /\ steps[j].status = "inProgress"
              /\ steps[j].tsEnd = None
              /\ steps[k].itemId = "i1" /\ steps[k].status = "inProgress"

\* C32: a turn/completed event sets the run's status to the status of its
\* payload, and to completed when the payload has none, whatever the status
\* of the run was.
C32_TurnCompletedSetsStatus ==
    [][(/\ ConsumedOne
        /\ Consumed.type = "turn/completed"
        /\ EventThread(Consumed) # None) =>
          LET given == IF Consumed.payload.turn = None THEN None
                       ELSE The(Consumed.payload.turn).status
          IN  mapper'.runs[The(EventThread(Consumed))].status =
                  IF given # None THEN given ELSE Some("completed")
      ]_vars

\* C33: an event of a type consume has no case for changes nothing but the
\* raw log: no RunView is created or modified, also when the event names a
\* thread the mapper has not seen.
C33_UnknownEventOnlyLogged ==
    [][(/\ ConsumedOne
        /\ Consumed.type \notin
              {"thread/started", "turn/started", "turn/completed", "turn/plan/updated",
               "turn/diff/updated", "thread/tokenUsage/updated", "item/started",
               "item/completed"} \cup DeltaTypes \cup ApprovalTypes) =>
          /\ mapper'.runs = mapper.runs
          /\ mapper'.steps = mapper.steps
      ]_vars

\* C34: an event that changes a step (status, time stamps, meta, result,
\* stream or approval) has its id appended to the step's rawEventIds; this
\* includes the event that closes a reasoning step in progress.
C34_ChangingEventIsRecorded ==
    [][ConsumedOne =>
          \A ref \in StepRefs(mapper) :
              LET old == StepOf(mapper, ref)
                  new == mapper'.runs[ref[1]].steps[ref[2]]
              IN  <<new.status, new.tsStart, new.tsEnd, new.meta, new.result,
                    new.stream, new.approval>> #
                  <<old.status, old.tsStart, old.tsEnd, old.meta, old.result,
                    old.stream, old.approval>>
                  => new.rawEventIds = Append(old.rawEventIds, Consumed.id)
      ]_vars

-----------------------------------------------------------------------------
(* Client requests and their answers *)

\* the frame a step of the gateway sent, if it sent one
SentOne == Len(clientFrames') = Len(clientFrames) + 1

\* C35: a client frame of type thread/start, thread/resume, turn/start or
\* turn/interrupt with a requestId is answered, on its open connection, with
\* one frame carrying the same requestId: a 'response' when the agent call
\* succeeds, an 'error' when it fails or when the session is missing.
C35_AnswerCarriesRequestId ==
    [][/\ \A i \in 1..Len(stdinLog) :
             (/\ ~stdinLog[i].settled
              /\ i <= Len(stdinLog') /\ stdinLog'[i].settled
              /\ stdinLog[i].conn \in DOMAIN connections
              /\ connections[stdinLog[i].conn].open) =>
                /\ SentOne
                /\ LET frame == clientFrames'[Len(clientFrames')]
                   IN  /\ frame.conn = stdinLog[i].conn
                       /\ frame.type \in {"response", "error"}
                       /\ frame.payload.requestId = stdinLog[i].requestId
       /\ (messagesHandled' = messagesHandled + 1 /\ stdinLog' = stdinLog) =>
             /\ SentOne
             /\ LET frame == clientFrames'[Len(clientFrames')]
                IN  /\ frame.type = "error"
                    /\ frame.payload.requestId = messagesHandled + 1
      ]_vars

-----------------------------------------------------------------------------
(* Policy: the built-in read-only commands *)

\* C36: every command of the built-in read-only set, the two-word entries
\* included, is accepted when it contains no '>', whatever the configured
\* auto-approve prefixes and paths are.
C36_BuiltInCommandsAccepted ==
    (/\ polResult # "none"
     /\ polReq.method = CmdMethod
     /\ polReq.command \in readOnlyCommands
     /\ ~Includes(polReq.command, ">"))
    => /\ polResult = "accept"
       /\ isReadOnlyCommand(polReq.command)

-----------------------------------------------------------------------------
(* Registry and gateway: entries keyed by user *)

\* C37: destroying a session that is closed and was superseded by a newer
\* session of its user leaves the newer session untouched: the user's entry
\* in userSessions still names the newer session.  (The working directory is
\* keyed by the user in the same way.)
C37_DestroyKeepsNewerSession ==
    [][\A sid \in DOMAIN sessions :
          LET userId == sessions[sid].userId
              newer == userSessions[userId]
          IN  (/\ sid \notin DOMAIN sessions'
               /\ sessions[sid].state = "closed"
               /\ newer # 0
               /\ newer # sid
               /\ newer \in DOMAIN sessions') =>
                 userSessions'[userId] = newer
      ]_vars

\* C38: a user with an open connection is routable: userConnections names an
\* open connection of the user, also after an older connection of the user
\* closed.
C38_UserWithOpenConnectionRoutable ==
    \A connectionId \in DOMAIN connections :
        connections[connectionId].open =>
            LET routed == userConnections[connections[connectionId].userId]
            IN  /\ routed \in DOMAIN connections
                /\ connections[routed].open
                /\ connections[routed].userId = connections[connectionId].userId

-----------------------------------------------------------------------------
(* Approval ids of the RunView and of the broker *)

\* C39: the approvalId the RunView shows on a step awaiting approval is the
\* key of the broker's pending entry for the same agent request, so that an
\* approval/respond with the RunView's approvalId resolves that request.
C39_ViewApprovalIdIsBrokerId ==
    \A approvalId \in DOMAIN pendingApprovals :
        \A ref \in StepRefs(mapper) :
            LET step == StepOf(mapper, ref)
                pending == pendingApprovals[approvalId]
            IN  (/\ pending.sessionId = 1
                 /\ step.status = "pending"
                 /\ step.approval # None
                 /\ step.itemId = "item" \o numberToString(pending.requestId)) =>
                   The(step.approval).approvalId = Some(nanoid(approvalId))

-----------------------------------------------------------------------------
(* Client requests for a closed session *)

\* C40: no client request is written to the stdin of a supervisor whose
\* session is closed: after the agent's exit (or a destroySession) a client
\* frame for that session is answered with an error frame, not forwarded.
C40_NoRequestToClosedSession ==
    [][\A connectionId \in DOMAIN connections :
          (/\ messagesHandled' = messagesHandled + 1
           /\ connections[connectionId].open
           /\ connections[connectionId].sessionId \in DOMAIN sessions
           /\ sessions[connections[connectionId].sessionId].state = "closed") =>
              \A i \in 1..Len(stdinLog') :
                  i > Len(stdinLog) =>
                      stdinLog'[i].session # connections[connectionId].sessionId
      ]_vars

====
